---- MODULE Spec2Model ----
(***************************************************************************)
(* Treaty reconciliation pipeline of scripts/generate_timelapse_data.py:   *)
(* loading of bot records and archive snapshots, the merge and replay of   *)
(* reconcile_events over the treaty state tracker, expiry and deletion     *)
(* inference, the grounding lookup, and the frame index builder.           *)
(*                                                                         *)
(* Conventions.  An instant is an integer number of hours since            *)
(* 2024-01-01T00:00:00Z.  An ISO timestamp string is the pair              *)
(* <<date, hour>>: its date portion (the first ten characters) and its     *)
(* time-of-day portion.  Other strings that the code compares              *)
(* lexicographically (source_ref) are sequences of character codes.        *)
(* Python's None is <<>> for optional numbers (a present value n is        *)
(* <<n>>) and the string "None" for optional text.  A dict is a sequence   *)
(* of entries in insertion order, which is the order Python iterates it.   *)
(* Alliance display names are not modelled: no operation of the model      *)
(* reads them.                                                             *)
(***************************************************************************)
EXTENDS Integers, Sequences, FiniteSets, TLC

VARIABLES
    pc,                     \* position in main(): which call runs next
    bot_records,            \* input: the JSON records of treaties.json
    snapshots,              \* input: the loaded archive snapshots, by time
    alliance_zero_markers,  \* input: census-derived deletion markers
    cfg,                    \* input: the command-line options
    bot_events,             \* load_bot_events(...)[0]
    bot_flags,              \* load_bot_events(...)[1]
    archive_delta_events,   \* build_archive_delta_events(...)
    grounding_lookup,       \* build_grounding_lookup(...)
    all_stream,             \* reconcile_events: the merged, sorted stream
    cursor,                 \* reconcile_events: index of the next item
    active,                 \* reconcile_events: the treaty state tracker
    out,                    \* reconcile_events: the emitted records
    flags,                  \* reconcile_events: the flags
    next_event_sequence,    \* reconcile_events: the sequence counter
    reconciled,             \* main: the log handed to the later stages
    frame_index,            \* main: build_frame_index(reconciled)
    query,                  \* a grounded_count call and its result
    extra_flags,            \* main: the flags of the two post-passes
    first_run,              \* the results of an earlier run on these inputs
    census_files,           \* input: the days with a census file on disk
    nation_flags,           \* load_alliance_zero_markers(...)[1]
    written,                \* the artifact files the run has written
    score_run,              \* score.py: the options and payload sizes
    census_rows,            \* input: the alliance ids each census file lists
    frame_index_payload     \* score.py: the frame index main rebuilds

vars == <<pc, bot_records, snapshots, alliance_zero_markers, cfg, bot_events,
          bot_flags, archive_delta_events, grounding_lookup, all_stream,
          cursor, active, out, flags, next_event_sequence, reconciled,
          frame_index, query, extra_flags, first_run, census_files,
          nation_flags, written, score_run, census_rows,
                   frame_index_payload>>

(***************************************************************************)
(* Program constants.                                                      *)
(***************************************************************************)
HOURS_PER_TURN == 2

HoursPerDay == 24

\* datetime.max (9999-12-31T23:59:59.999999) in hours since 2024-01-01.
DatetimeMax == 69910223

TERMINAL_ACTIONS ==
    {"cancelled", "expired", "ended", "terminated", "termination",
     "inferred_cancelled"}

(***************************************************************************)
(* Bounds of the model.                                                    *)
(***************************************************************************)
\* Longest list of well-formed bot records drawn as input.
MaxBot == 3

\* Longest grounding lookup drawn for the grounded_count queries.
MaxLookup == 2

\* Latest instant (in hours) of a grounding snapshot or query.
MaxWhen == 3

(***************************************************************************)
(* Strings and timestamps.                                                 *)
(***************************************************************************)
dt_to_iso(t) == <<t \div HoursPerDay, t % HoursPerDay>>

parse_dt(s) == s[1] * HoursPerDay + s[2]

\* str(n) for a natural number, as character codes.
RECURSIVE DecimalStr(_)
DecimalStr(n) ==
    IF n < 10 THEN <<48 + n>>
    ELSE DecimalStr(n \div 10) \o <<48 + (n % 10)>>

\* str(date) of day d of January 2024: "2024-01-DD".
DateStr(d) ==
    <<50, 48, 50, 52, 45, 48, 49, 45>>
        \o <<48 + ((d + 1) \div 10), 48 + ((d + 1) % 10)>>

\* Python's < on str: lexicographic by code point, a proper prefix first.
RECURSIVE StrLess(_, _)
StrLess(s, t) ==
    IF t = <<>> THEN FALSE
    ELSE IF s = <<>> THEN TRUE
    ELSE IF s[1] # t[1] THEN s[1] < t[1]
    ELSE StrLess(Tail(s), Tail(t))

\* f"bot:{idx}"
BotRef(idx) == <<98, 111, 116, 58>> \o DecimalStr(idx)

\* f"snapshot:{idx}:add" and f"snapshot:{idx}:remove"
SnapshotRef(idx, added) ==
    <<115, 110, 97, 112, 115, 104, 111, 116, 58>> \o DecimalStr(idx) \o <<58>>
        \o (IF added THEN <<97, 100, 100>>
            ELSE <<114, 101, 109, 111, 118, 101>>)

\* f"alliances:{aid}:{day}"
AlliancesRef(aid, d) ==
    <<97, 108, 108, 105, 97, 110, 99, 101, 115, 58>> \o DecimalStr(aid)
        \o <<58>> \o DateStr(d)

\* The treaty type tokens of the model in Python's string order.
TypeOrder == <<"", "MDP", "NAP", "ODP", "UNKNOWN">>

TypeRank(t) == CHOOSE i \in 1..Len(TypeOrder) : TypeOrder[i] = t

\* Mutant: the pair is kept in the order the record gives it.
norm_pair_as_given(a, b) == <<a, b>>

norm_pair(a, b) == IF a <= b THEN <<a, b>> ELSE <<b, a>>

\* The type tokens of the model are already stripped and upper case.
norm_treaty_type(raw) == raw

normalize_action(raw) ==
    IF raw \in {"terminated", "termination"} THEN "ended" ELSE raw

RemoveAt(s, i) == SubSeq(s, 1, i - 1) \o SubSeq(s, i + 1, Len(s))

(***************************************************************************)
(* load_bot_events.  A raw record's treaty_type is the sequence of the     *)
(* tokens that "->" separates: <<"MDP">> is "MDP", <<"ODP", "MDP">> is     *)
(* "ODP->MDP".                                                             *)
(***************************************************************************)
BotBase(rec, idx) ==
    LET pair == norm_pair(rec.from_alliance_id, rec.to_alliance_id)
    IN  [timestamp |-> dt_to_iso(parse_dt(rec.timestamp)),
         from_alliance_id |-> rec.from_alliance_id,
         to_alliance_id |-> rec.to_alliance_id,
         pair_min_id |-> pair[1],
         pair_max_id |-> pair[2],
         source |-> "bot",
         source_ref |-> BotRef(idx),
         confidence |-> "high",
         inferred |-> FALSE,
         inference_reason |-> "None",
         time_remaining_turns |-> rec.time_remaining_turns]

WithAction(base, action, treaty_type) ==
    [f \in DOMAIN base \cup {"action", "treaty_type"} |->
        IF f = "action" THEN action
        ELSE IF f = "treaty_type" THEN treaty_type
        ELSE base[f]]

\* One iteration of the loop: the events and flags record idx contributes,
\* or the exception it raises: int() of an alliance id that is absent or
\* not a number, rec["timestamp"] of an absent key, parse_dt of a text that
\* is no date.
LoadBotRecord(rec, idx) ==
    LET action == normalize_action(rec.action)
        base == BotBase(rec, idx)
    IN  IF action = ""
        THEN [events |-> <<>>,
              flags |-> <<[severity |-> "warning", flag |-> "missing_action",
                           record_index |-> idx]>>,
              raised |-> FALSE]
        ELSE IF rec.unusable # {}
        THEN [events |-> <<>>, flags |-> <<>>, raised |-> TRUE]
        ELSE IF action \in {"upgraded", "downgraded"}
        THEN IF Len(rec.treaty_type) < 2
             THEN [events |-> <<>>,
                   flags |-> <<[severity |-> "warning",
                                flag |-> "upgrade_without_arrow_type",
                                record_index |-> idx]>>,
                   raised |-> FALSE]
             ELSE [events |->
                     <<WithAction(base, "cancelled",
                                  norm_treaty_type(rec.treaty_type[1])),
                       WithAction(base, "signed",
                                  norm_treaty_type(rec.treaty_type[2]))>>,
                   flags |-> <<>>,
                   raised |-> FALSE]
        ELSE [events |->
                <<WithAction(base, action,
                             norm_treaty_type(rec.treaty_type[1]))>>,
              flags |-> <<>>,
              raised |-> FALSE]

\* The loop from record i on; an exception ends it and discards its lists.
RECURSIVE LoadBotFrom(_, _)
LoadBotFrom(records, i) ==
    IF i > Len(records)
    THEN [events |-> <<>>, flags |-> <<>>, raised |-> FALSE]
    ELSE LET one == LoadBotRecord(records[i], i - 1)
             rest == LoadBotFrom(records, i + 1)
         IN  IF one.raised \/ rest.raised
             THEN [events |-> <<>>, flags |-> <<>>, raised |-> TRUE]
             ELSE [events |-> one.events \o rest.events,
                   flags |-> one.flags \o rest.flags,
                   raised |-> FALSE]

load_bot_events(records) == LoadBotFrom(records, 1)

(***************************************************************************)
(* build_archive_delta_events and build_grounding_lookup.  A snapshot is   *)
(* [timestamp, node_ids, edges], an edge <<pair_min, pair_max, type>>.     *)
(***************************************************************************)
EdgeLess(e, f) ==
    \/ e[1] < f[1]
    \/ e[1] = f[1] /\ e[2] < f[2]
    \/ e[1] = f[1] /\ e[2] = f[2] /\ TypeRank(e[3]) < TypeRank(f[3])

\* sorted(S) for a set of edges.
RECURSIVE SortedEdges(_)
SortedEdges(S) ==
    IF S = {} THEN <<>>
    ELSE LET m == CHOOSE e \in S : \A f \in S \ {e} : EdgeLess(e, f)
         IN  <<m>> \o SortedEdges(S \ {m})

ArchiveEvent(curr, idx, e, added) ==
    [timestamp |-> dt_to_iso(curr.timestamp),
     action |-> IF added THEN "signed" ELSE "cancelled",
     treaty_type |-> e[3],
     from_alliance_id |-> e[1],
     to_alliance_id |-> e[2],
     pair_min_id |-> e[1],
     pair_max_id |-> e[2],
     source |-> "archive_delta",
     source_ref |-> SnapshotRef(idx, added),
     confidence |-> "medium",
     inferred |-> TRUE,
     inference_reason |-> IF added THEN "archive_snapshot_diff_added"
                          ELSE "archive_snapshot_diff_removed",
     time_remaining_turns |-> <<>>]

\* Mutant: every snapshot is compared with the first one.
ArchiveDeltaAgainstFirst(snaps, idx) ==
    LET prev == snaps[1]
        curr == snaps[idx + 1]
        added == SortedEdges(curr.edges \ prev.edges)
        removed == SortedEdges(prev.edges \ curr.edges)
    IN  [k \in 1..Len(added) |-> ArchiveEvent(curr, idx, added[k], TRUE)]
        \o [k \in 1..Len(removed) |->
               ArchiveEvent(curr, idx, removed[k], FALSE)]

\* The events of loop iteration idx (Python's index of curr).
ArchiveDeltaAt(snaps, idx) ==
    LET prev == snaps[idx]
        curr == snaps[idx + 1]
        added == SortedEdges(curr.edges \ prev.edges)
        removed == SortedEdges(prev.edges \ curr.edges)
    IN  [k \in 1..Len(added) |-> ArchiveEvent(curr, idx, added[k], TRUE)]
        \o [k \in 1..Len(removed) |->
               ArchiveEvent(curr, idx, removed[k], FALSE)]

RECURSIVE ArchiveDeltaFrom(_, _)
ArchiveDeltaFrom(snaps, idx) ==
    IF idx >= Len(snaps) THEN <<>>
    ELSE ArchiveDeltaAt(snaps, idx) \o ArchiveDeltaFrom(snaps, idx + 1)

build_archive_delta_events(snaps) ==
    IF Len(snaps) < 2 THEN <<>> ELSE ArchiveDeltaFrom(snaps, 1)

build_grounding_lookup(snaps) ==
    [i \in 1..Len(snaps) |-> <<snaps[i].timestamp, snaps[i].node_ids>>]

\* prepare_alliance_archives without the download: the census files of the
\* directory between start_day and end_day (<<>> is None), and a flag when
\* there is none.
prepare_alliance_archives(dir_days, start_day, end_day) ==
    LET files == {d \in dir_days :
                     /\ start_day = <<>> \/ d >= start_day[1]
                     /\ end_day = <<>> \/ d <= end_day[1]}
    IN  [files |-> files,
         flags |-> IF files = {}
                   THEN <<[severity |-> "info",
                           flag |-> "alliances_csv_not_found"]>>
                   ELSE <<>>]

\* A marker as load_alliance_zero_markers appends it.
ZeroMarker(ts, aid) ==
    [timestamp |-> dt_to_iso(ts),
     action |-> "alliance_zero_members",
     alliance_id |-> aid,
     source |-> "alliances",
     source_ref |-> AlliancesRef(aid, ts \div HoursPerDay)]

(***************************************************************************)
(* grounded_count and should_keep_by_top50.  A lookup is a sequence of     *)
(* <<timestamp, node_ids>>.                                                *)
(***************************************************************************)
\* The for loop: the last index of the leading run of entries with ts <= when.
RECURSIVE GroundedScan(_, _, _, _)
GroundedScan(lookup, when, i, idx) ==
    IF i > Len(lookup) THEN idx
    ELSE IF lookup[i][1] <= when THEN GroundedScan(lookup, when, i + 1, i)
    ELSE idx

\* Mutant: the scan compares with < and so skips a snapshot taken at `when`.
RECURSIVE GroundedScanStrict(_, _, _, _)
GroundedScanStrict(lookup, when, i, idx) ==
    IF i > Len(lookup) THEN idx
    ELSE IF lookup[i][1] < when
    THEN GroundedScanStrict(lookup, when, i + 1, i)
    ELSE idx

grounded_count_strict(lookup, when, aid) ==
    IF lookup = <<>> THEN FALSE
    ELSE IF when < lookup[1][1] THEN FALSE
    ELSE aid \in lookup[GroundedScanStrict(lookup, when, 1, 1)][2]

grounded_count(lookup, when, aid) ==
    IF lookup = <<>> THEN FALSE
    ELSE IF when < lookup[1][1] THEN FALSE
    ELSE aid \in lookup[GroundedScan(lookup, when, 1, 1)][2]

\* Mutant: semi asks for both endpoints, as strict does.
should_keep_both_when_semi(mode, grounded_from, grounded_to) ==
    IF mode = "off" THEN TRUE
    ELSE grounded_from /\ grounded_to

should_keep_by_top50(mode, grounded_from, grounded_to) ==
    IF mode = "off" THEN TRUE
    ELSE IF mode = "semi" THEN grounded_from \/ grounded_to
    ELSE IF mode = "strict" THEN grounded_from /\ grounded_to
    ELSE TRUE

(***************************************************************************)
(* The treaty state tracker: the dict `active` of reconcile_events, from   *)
(* pair to a dict from treaty type to TreatyState.  It is a sequence of    *)
(* [pair, by_type] in insertion order; by_type is a sequence of            *)
(* TreatyState in insertion order.  No pair is kept with an empty by_type. *)
(***************************************************************************)
PairPos(act, pair) ==
    IF \E i \in 1..Len(act) : act[i].pair = pair
    THEN CHOOSE i \in 1..Len(act) : act[i].pair = pair
    ELSE 0

TypePos(by_type, t) ==
    IF \E i \in 1..Len(by_type) : by_type[i].treaty_type = t
    THEN CHOOSE i \in 1..Len(by_type) : by_type[i].treaty_type = t
    ELSE 0

HasState(act, pair, t) ==
    PairPos(act, pair) # 0 /\ TypePos(act[PairPos(act, pair)].by_type, t) # 0

GetState(act, pair, t) ==
    LET by_type == act[PairPos(act, pair)].by_type
    IN  by_type[TypePos(by_type, t)]

\* active[pair][t] = st: a new key goes last, an existing key keeps its place.
SetState(act, pair, st) ==
    LET p == PairPos(act, pair)
    IN  IF p = 0 THEN Append(act, [pair |-> pair, by_type |-> <<st>>])
        ELSE LET by_type == act[p].by_type
                 q == TypePos(by_type, st.treaty_type)
             IN  [act EXCEPT ![p].by_type =
                     IF q = 0 THEN Append(by_type, st)
                     ELSE [by_type EXCEPT ![q] = st]]

\* del active[pair][t] if present, then del active[pair] if it is empty.
DelState(act, pair, t) ==
    IF ~HasState(act, pair, t) THEN act
    ELSE LET p == PairPos(act, pair)
             by_type == RemoveAt(act[p].by_type, TypePos(act[p].by_type, t))
         IN  IF by_type = <<>> THEN RemoveAt(act, p)
             ELSE [act EXCEPT ![p].by_type = by_type]

\* sorted(active.get(pair, {}).keys())
RECURSIVE SortedTypes(_)
SortedTypes(S) ==
    IF S = {} THEN <<>>
    ELSE LET m == CHOOSE t \in S : \A u \in S \ {t} : TypeRank(t) < TypeRank(u)
         IN  <<m>> \o SortedTypes(S \ {m})

candidate_types_for_pair(act, pair) ==
    LET p == PairPos(act, pair)
    IN  IF p = 0 THEN <<>>
        ELSE SortedTypes({act[p].by_type[i].treaty_type :
                             i \in 1..Len(act[p].by_type)})

\* The (pair, state) entries of the tracker in iteration order.
RECURSIVE ActiveItems(_)
ActiveItems(act) ==
    IF act = <<>> THEN <<>>
    ELSE [i \in 1..Len(act[1].by_type) |->
             [pair |-> act[1].pair, state |-> act[1].by_type[i]]]
         \o ActiveItems(Tail(act))

RECURSIVE DelAll(_, _)
DelAll(act, items) ==
    IF items = <<>> THEN act
    ELSE DelAll(DelState(act, items[1].pair, items[1].state.treaty_type),
                Tail(items))

\* Mutant: a turn counted as one hour.
maybe_expiry_ts_hourly(base_ts, turns) ==
    IF turns = <<>> THEN <<>>
    ELSE IF turns[1] < 0 THEN <<>>
    ELSE <<base_ts + turns[1]>>

maybe_expiry_ts(base_ts, turns) ==
    IF turns = <<>> THEN <<>>
    ELSE IF turns[1] < 0 THEN <<>>
    ELSE <<base_ts + turns[1] * HOURS_PER_TURN>>

(***************************************************************************)
(* infer_type_if_needed: the type it returns and the flags it appends.     *)
(***************************************************************************)
\* Mutant: the first open type is adopted when several are open.
infer_type_if_needed_any_candidate(event, act) ==
    LET action == normalize_action(event.action)
        type_norm == norm_treaty_type(event.treaty_type)
        pair == <<event.pair_min_id, event.pair_max_id>>
        candidates == candidate_types_for_pair(act, pair)
    IN  IF type_norm # "" /\ type_norm # "UNKNOWN"
        THEN [type |-> type_norm, flags |-> <<>>]
        ELSE IF Len(candidates) >= 1
                /\ action \in {"extended", "cancelled", "expired", "ended"}
        THEN [type |-> candidates[1],
              flags |-> <<[severity |-> "info",
                           flag |-> "inferred_missing_treaty_type",
                           event_ref |-> event.source_ref,
                           action |-> action,
                           inferred_type |-> candidates[1]]>>]
        ELSE IF action = "extended"
        THEN [type |-> type_norm,
              flags |-> <<[severity |-> "warning",
                           flag |-> "extended_without_inferable_type",
                           event_ref |-> event.source_ref,
                           candidate_types |-> candidates]>>]
        ELSE [type |-> type_norm, flags |-> <<>>]

infer_type_if_needed(event, act) ==
    LET action == normalize_action(event.action)
        type_norm == norm_treaty_type(event.treaty_type)
        pair == <<event.pair_min_id, event.pair_max_id>>
        candidates == candidate_types_for_pair(act, pair)
    IN  IF type_norm # "" /\ type_norm # "UNKNOWN"
        THEN [type |-> type_norm, flags |-> <<>>]
        ELSE IF Len(candidates) = 1
                /\ action \in {"extended", "cancelled", "expired", "ended"}
        THEN [type |-> candidates[1],
              flags |-> <<[severity |-> "info",
                           flag |-> "inferred_missing_treaty_type",
                           event_ref |-> event.source_ref,
                           action |-> action,
                           inferred_type |-> candidates[1]]>>]
        ELSE IF action = "extended"
        THEN [type |-> type_norm,
              flags |-> <<[severity |-> "warning",
                           flag |-> "extended_without_inferable_type",
                           event_ref |-> event.source_ref,
                           candidate_types |-> candidates]>>]
        ELSE [type |-> type_norm, flags |-> <<>>]

(***************************************************************************)
(* reconcile_events.  A replay state is [active, out, flags, seq].         *)
(***************************************************************************)
\* Mutant: the identifier also depends on how many runs came before.
event_id_per_run(payload) ==
    <<payload.timestamp, payload.event_sequence, payload.action,
      payload.treaty_type, payload.pair_min_id, payload.pair_max_id,
      payload.source, payload.source_ref, Len(first_run)>>

\* Mutant: the identifier depends on where a record comes from and not on
\* its sequence number, action and type.
event_id_of_origin(payload) ==
    <<payload.timestamp, payload.pair_min_id, payload.pair_max_id,
      payload.source, payload.source_ref>>

\* The fields event_id hashes; the hash is modelled by its argument.
event_id(payload) ==
    <<payload.timestamp, payload.event_sequence, payload.action,
      payload.treaty_type, payload.pair_min_id, payload.pair_max_id,
      payload.source, payload.source_ref>>

\* append_record's effect on one record given the counter's value.
Stamp(record, seq) ==
    LET numbered == [f \in DOMAIN record \cup {"event_sequence"} |->
                        IF f = "event_sequence" THEN seq ELSE record[f]]
    IN  [f \in DOMAIN numbered \cup {"event_id"} |->
            IF f = "event_id" THEN event_id(numbered) ELSE numbered[f]]

\* Mutant: the counter advances once per batch of records, emitted or not.
AppendRecordsOnePerBatch(S, records) ==
    [S EXCEPT
        !.out = S.out \o [i \in 1..Len(records) |->
                             Stamp(records[i], S.seq + i - 1)],
        !.seq = S.seq + 1]

\* append_record called on each of records, in order.
AppendRecords(S, records) ==
    [S EXCEPT
        !.out = S.out \o [i \in 1..Len(records) |->
                             Stamp(records[i], S.seq + i - 1)],
        !.seq = S.seq + Len(records)]

\* An inferred_cancelled record; ref is its source_ref, conf its confidence.
InferredRecord(lookup, mode, pair, treaty_type, when, source, ref, conf, why) ==
    LET grounded_from == grounded_count(lookup, when, pair[1])
        grounded_to == grounded_count(lookup, when, pair[2])
    IN  [timestamp |-> dt_to_iso(when),
         action |-> "inferred_cancelled",
         treaty_type |-> treaty_type,
         from_alliance_id |-> pair[1],
         to_alliance_id |-> pair[2],
         pair_min_id |-> pair[1],
         pair_max_id |-> pair[2],
         source |-> source,
         source_ref |-> ref,
         confidence |-> conf,
         inferred |-> TRUE,
         inference_reason |-> why,
         time_remaining_turns |-> <<>>,
         grounded_from |-> grounded_from,
         grounded_to |-> grounded_to,
         grounded_keep |-> should_keep_by_top50(mode, grounded_from,
                                                grounded_to),
         noise_filtered |-> FALSE,
         noise_reason |-> "None"]

IsDue(item, now) ==
    item.state.expires_at # <<>> /\ item.state.expires_at[1] <= now

\* Mutant: the flush runs whether or not the option is set.
flush_expired_ignoring_option(S, now, lookup, c) ==
    LET due == SelectSeq(ActiveItems(S.active),
                         LAMBDA item : IsDue(item, now))
        records ==
            [i \in 1..Len(due) |->
                InferredRecord(lookup, c.top50_mode, due[i].pair,
                    due[i].state.treaty_type,
                    due[i].state.expires_at[1], "expiry_inferred",
                    due[i].state.last_event_id, "low",
                    "time_remaining_elapsed_without_terminal_event")]
    IN  [AppendRecords(S, records) EXCEPT !.active = DelAll(S.active, due)]

\* Mutant: the expiry records are emitted but the states stay.
flush_expired_keep_state(S, now, lookup, c) ==
    IF ~c.infer_expiry_cancels THEN S
    ELSE LET due == SelectSeq(ActiveItems(S.active),
                              LAMBDA item : IsDue(item, now))
             records ==
                 [i \in 1..Len(due) |->
                     InferredRecord(lookup, c.top50_mode, due[i].pair,
                         due[i].state.treaty_type,
                         due[i].state.expires_at[1], "expiry_inferred",
                         due[i].state.last_event_id, "low",
                         "time_remaining_elapsed_without_terminal_event")]
         IN  AppendRecords(S, records)

flush_expired(S, now, lookup, c) ==
    IF ~c.infer_expiry_cancels THEN S
    ELSE LET due == SelectSeq(ActiveItems(S.active),
                              LAMBDA item : IsDue(item, now))
             records ==
                 [i \in 1..Len(due) |->
                     InferredRecord(lookup, c.top50_mode, due[i].pair,
                         due[i].state.treaty_type,
                         due[i].state.expires_at[1], "expiry_inferred",
                         due[i].state.last_event_id, "low",
                         "time_remaining_elapsed_without_terminal_event")]
         IN  [AppendRecords(S, records) EXCEPT
                 !.active = DelAll(S.active, due)]

\* Mutant: a marker closes every open relationship.
ReplayMarkerCloseAll(S, raw, lookup, c) ==
    IF ~c.infer_deletion_cancels THEN S
    ELSE LET aid == raw.alliance_id
             hit == SelectSeq(ActiveItems(S.active),
                              LAMBDA item : aid = aid)
             records ==
                 [i \in 1..Len(hit) |->
                     InferredRecord(lookup, c.top50_mode, hit[i].pair,
                         hit[i].state.treaty_type, parse_dt(raw.timestamp),
                         "deletion_inferred", raw.source_ref, "medium",
                         "alliance_membership_zero")]
         IN  [AppendRecords(S, records) EXCEPT
                 !.active = DelAll(S.active, hit)]

\* Mutant: a marker emits its records and leaves the states in place.
ReplayMarkerKeepState(S, raw, lookup, c) ==
    IF ~c.infer_deletion_cancels THEN S
    ELSE LET aid == raw.alliance_id
             hit == SelectSeq(ActiveItems(S.active),
                              LAMBDA item : aid \in {item.pair[1],
                                                      item.pair[2]})
             records ==
                 [i \in 1..Len(hit) |->
                     InferredRecord(lookup, c.top50_mode, hit[i].pair,
                         hit[i].state.treaty_type, parse_dt(raw.timestamp),
                         "deletion_inferred", raw.source_ref, "medium",
                         "alliance_membership_zero")]
         IN  AppendRecords(S, records)

\* The alliance_zero_members branch of the loop body, after the flush.
ReplayMarker(S, raw, lookup, c) ==
    IF ~c.infer_deletion_cancels THEN S
    ELSE LET aid == raw.alliance_id
             hit == SelectSeq(ActiveItems(S.active),
                              LAMBDA item : aid \in {item.pair[1],
                                                      item.pair[2]})
             records ==
                 [i \in 1..Len(hit) |->
                     InferredRecord(lookup, c.top50_mode, hit[i].pair,
                         hit[i].state.treaty_type, parse_dt(raw.timestamp),
                         "deletion_inferred", raw.source_ref, "medium",
                         "alliance_membership_zero")]
         IN  [AppendRecords(S, records) EXCEPT
                 !.active = DelAll(S.active, hit)]

\* Mutant: an extended event on a key without state is ignored.
ApplyActionExtendOnlyOpen(act, action, pair, type_norm, current_ts, raw) ==
    LET expires_at == maybe_expiry_ts(current_ts, raw.time_remaining_turns)
        new_state == [treaty_type |-> type_norm,
                      opened_at |-> current_ts,
                      expires_at |-> expires_at,
                      last_event_id |-> raw.source_ref]
    IN  IF action = "signed" THEN SetState(act, pair, new_state)
        ELSE IF action = "extended"
        THEN IF ~HasState(act, pair, type_norm) THEN act
             ELSE SetState(act, pair,
                     [GetState(act, pair, type_norm) EXCEPT
                         !.expires_at = expires_at,
                         !.last_event_id = raw.source_ref])
        ELSE IF action \in TERMINAL_ACTIONS
        THEN DelState(act, pair, type_norm)
        ELSE act

\* Mutant: an extended event replaces the state as a signed one does.
ApplyActionExtendReopens(act, action, pair, type_norm, current_ts, raw) ==
    LET expires_at == maybe_expiry_ts(current_ts, raw.time_remaining_turns)
        new_state == [treaty_type |-> type_norm,
                      opened_at |-> current_ts,
                      expires_at |-> expires_at,
                      last_event_id |-> raw.source_ref]
    IN  IF action \in {"signed", "extended"}
        THEN SetState(act, pair, new_state)
        ELSE IF action \in TERMINAL_ACTIONS
        THEN DelState(act, pair, type_norm)
        ELSE act

\* The state update of the loop body for an event of a resolved type.
ApplyAction(act, action, pair, type_norm, current_ts, raw) ==
    LET expires_at == maybe_expiry_ts(current_ts, raw.time_remaining_turns)
        new_state == [treaty_type |-> type_norm,
                      opened_at |-> current_ts,
                      expires_at |-> expires_at,
                      last_event_id |-> raw.source_ref]
    IN  IF action = "signed" THEN SetState(act, pair, new_state)
        ELSE IF action = "extended"
        THEN IF ~HasState(act, pair, type_norm)
             THEN SetState(act, pair, new_state)
             ELSE SetState(act, pair,
                     [GetState(act, pair, type_norm) EXCEPT
                         !.expires_at = expires_at,
                         !.last_event_id = raw.source_ref])
        ELSE IF action \in TERMINAL_ACTIONS
        THEN DelState(act, pair, type_norm)
        ELSE act

EventRecord(raw, action, type_norm, pair, lookup, mode) ==
    LET current_ts == parse_dt(raw.timestamp)
        grounded_from == grounded_count(lookup, current_ts,
                                        raw.from_alliance_id)
        grounded_to == grounded_count(lookup, current_ts, raw.to_alliance_id)
    IN  [timestamp |-> raw.timestamp,
         action |-> action,
         treaty_type |-> type_norm,
         from_alliance_id |-> raw.from_alliance_id,
         to_alliance_id |-> raw.to_alliance_id,
         pair_min_id |-> pair[1],
         pair_max_id |-> pair[2],
         source |-> raw.source,
         source_ref |-> raw.source_ref,
         confidence |-> raw.confidence,
         inferred |-> raw.inferred,
         inference_reason |-> raw.inference_reason,
         time_remaining_turns |-> raw.time_remaining_turns,
         grounded_from |-> grounded_from,
         grounded_to |-> grounded_to,
         grounded_keep |-> should_keep_by_top50(mode, grounded_from,
                                                grounded_to),
         noise_filtered |-> FALSE,
         noise_reason |-> "None"]

\* Mutant: an UNKNOWN type is dropped like an empty one.
EmptyOrUnknownAfterInference(type_norm) == type_norm \in {"", "UNKNOWN"}

\* `if not type_norm`: the type is still empty after inference.
EmptyAfterInference(type_norm) == type_norm = ""

\* Mutant: an event the grounding policy does not keep neither changes the
\* tracker nor is emitted.
ReplayEventKeptOnly(S, raw, lookup, c) ==
    LET action == normalize_action(raw.action)
        pair == <<raw.pair_min_id, raw.pair_max_id>>
        inf == infer_type_if_needed(raw, S.active)
        type_norm == inf.type
        flags1 == S.flags \o inf.flags
        record == EventRecord(raw, action, type_norm, pair, lookup,
                              c.top50_mode)
    IN  IF EmptyAfterInference(type_norm)
        THEN [S EXCEPT !.flags =
                 Append(flags1,
                     [severity |-> "warning",
                      flag |-> "empty_treaty_type_after_inference",
                      event_ref |-> raw.source_ref,
                      action |-> action])]
        ELSE IF ~record.grounded_keep THEN [S EXCEPT !.flags = flags1]
        ELSE AppendRecords(
                 [S EXCEPT
                     !.active = ApplyAction(S.active, action, pair, type_norm,
                                            parse_dt(raw.timestamp), raw),
                     !.flags = flags1],
                 <<record>>)

\* The rest of the loop body for a treaty event, after the flush.
ReplayEvent(S, raw, lookup, c) ==
    LET action == normalize_action(raw.action)
        pair == <<raw.pair_min_id, raw.pair_max_id>>
        inf == infer_type_if_needed(raw, S.active)
        type_norm == inf.type
        flags1 == S.flags \o inf.flags
    IN  IF EmptyAfterInference(type_norm)
        THEN [S EXCEPT !.flags =
                 Append(flags1,
                     [severity |-> "warning",
                      flag |-> "empty_treaty_type_after_inference",
                      event_ref |-> raw.source_ref,
                      action |-> action])]
        ELSE LET flags2 ==
                     IF type_norm = "UNKNOWN"
                     THEN Append(flags1,
                             [severity |-> "warning",
                              flag |-> "unknown_treaty_type_event",
                              event_ref |-> raw.source_ref])
                     ELSE flags1
                 applied == ApplyAction(S.active, action, pair, type_norm,
                                        parse_dt(raw.timestamp), raw)
             IN  AppendRecords(
                     [S EXCEPT !.active = applied, !.flags = flags2],
                     <<EventRecord(raw, action, type_norm, pair, lookup,
                                   c.top50_mode)>>)

\* Mutant: the item is applied first and the expired states are flushed after.
ReplayItemFlushAfter(S, raw, lookup, c) ==
    LET applied == IF raw.action = "alliance_zero_members"
                   THEN ReplayMarker(S, raw, lookup, c)
                   ELSE ReplayEvent(S, raw, lookup, c)
    IN  flush_expired(applied, parse_dt(raw.timestamp), lookup, c)

\* One iteration of `for raw in all_stream`.
ReplayItem(S, raw, lookup, c) ==
    LET flushed == flush_expired(S, parse_dt(raw.timestamp), lookup, c)
    IN  IF raw.action = "alliance_zero_members"
        THEN ReplayMarker(flushed, raw, lookup, c)
        ELSE ReplayEvent(flushed, raw, lookup, c)

(***************************************************************************)
(* The two sorts of reconcile_events.  list.sort is stable: an insertion   *)
(* sort that places each element after the elements not greater than it.   *)
(***************************************************************************)
SourcePriority(item) ==
    IF item.source = "bot" THEN 0
    ELSE IF item.source = "archive_delta" THEN 1
    ELSE 2

\* Mutant: the sort key without the source priority.
StreamKeyLessNoPriority(a, b) ==
    LET ta == parse_dt(a.timestamp)
        tb == parse_dt(b.timestamp)
    IN  \/ ta < tb
        \/ ta = tb /\ StrLess(a.source_ref, b.source_ref)

\* stream_sort_key(a) < stream_sort_key(b)
StreamKeyLess(a, b) ==
    LET ta == parse_dt(a.timestamp)
        tb == parse_dt(b.timestamp)
    IN  \/ ta < tb
        \/ ta = tb /\ SourcePriority(a) < SourcePriority(b)
        \/ ta = tb /\ SourcePriority(a) = SourcePriority(b)
              /\ StrLess(a.source_ref, b.source_ref)

\* Mutant: an item goes before the items whose key equals its own.
RECURSIVE InsertStreamBeforeEqual(_, _)
InsertStreamBeforeEqual(sorted, x) ==
    IF sorted = <<>> THEN <<x>>
    ELSE IF ~StreamKeyLess(sorted[Len(sorted)], x)
    THEN Append(InsertStreamBeforeEqual(SubSeq(sorted, 1, Len(sorted) - 1),
                                        x),
                sorted[Len(sorted)])
    ELSE Append(sorted, x)

RECURSIVE InsertStream(_, _)
InsertStream(sorted, x) ==
    IF sorted = <<>> THEN <<x>>
    ELSE IF StreamKeyLess(x, sorted[Len(sorted)])
    THEN Append(InsertStream(SubSeq(sorted, 1, Len(sorted) - 1), x),
                sorted[Len(sorted)])
    ELSE Append(sorted, x)

RECURSIVE SortStreamFrom(_, _)
SortStreamFrom(sorted, rest) ==
    IF rest = <<>> THEN sorted
    ELSE SortStreamFrom(InsertStream(sorted, rest[1]), Tail(rest))

\* all_stream.sort(key=stream_sort_key)
SortStream(items) == SortStreamFrom(<<>>, items)

\* The key of out.sort; event_sequence is unique, so event_id never decides.
OutKeyLess(a, b) ==
    LET ta == parse_dt(a.timestamp)
        tb == parse_dt(b.timestamp)
    IN  \/ ta < tb
        \/ ta = tb /\ a.event_sequence < b.event_sequence

RECURSIVE InsertOut(_, _)
InsertOut(sorted, x) ==
    IF sorted = <<>> THEN <<x>>
    ELSE IF OutKeyLess(x, sorted[Len(sorted)])
    THEN Append(InsertOut(SubSeq(sorted, 1, Len(sorted) - 1), x),
                sorted[Len(sorted)])
    ELSE Append(sorted, x)

RECURSIVE SortOutFrom(_, _)
SortOutFrom(sorted, rest) ==
    IF rest = <<>> THEN sorted
    ELSE SortOutFrom(InsertOut(sorted, rest[1]), Tail(rest))

\* Mutant: out is returned in emission order.
SortOutOmitted(records) == records

\* out.sort(key=...)
SortOut(records) == SortOutFrom(<<>>, records)

\* The concatenation of the source streams, before the sort.
ConcatStreams(bot, archive, markers, c) ==
    bot \o archive \o (IF c.infer_deletion_cancels THEN markers ELSE <<>>)

(***************************************************************************)
(* build_frame_index.  The builder's state is the record of its locals;    *)
(* active_by_pair is a function from the keys that have an active edge.    *)
(***************************************************************************)
RECURSIVE SortedInts(_)
SortedInts(S) ==
    IF S = {} THEN <<>>
    ELSE LET m == CHOOSE x \in S : \A y \in S : x <= y
         IN  <<m>> \o SortedInts(S \ {m})

FrameStart ==
    [day_keys |-> <<>>,
     event_end_offset_by_day |-> <<>>,
     active_edge_delta_by_day |-> <<>>,
     edge_dict |-> <<>>,
     active_by_pair |-> [k \in {} |-> 0],
     current_day |-> <<>>,
     day_add |-> {},
     day_remove |-> {}]

\* Mutant: the offset recorded for a day is the index of its last event.
flush_day_last_index(F, day, end_offset_exclusive) ==
    [F EXCEPT
        !.day_keys = Append(@, day),
        !.event_end_offset_by_day = Append(@, end_offset_exclusive - 1),
        !.active_edge_delta_by_day =
            Append(@, [add_edge_ids |-> SortedInts(F.day_add),
                       remove_edge_ids |-> SortedInts(F.day_remove)])]

flush_day(F, day, end_offset_exclusive) ==
    [F EXCEPT
        !.day_keys = Append(@, day),
        !.event_end_offset_by_day = Append(@, end_offset_exclusive),
        !.active_edge_delta_by_day =
            Append(@, [add_edge_ids |-> SortedInts(F.day_add),
                       remove_edge_ids |-> SortedInts(F.day_remove)])]

\* Mutant: a resolved edge always goes to the day's removals.
ResolvePreviousAlwaysRemove(F, key) ==
    IF key \notin DOMAIN F.active_by_pair THEN F
    ELSE [F EXCEPT !.day_remove = @ \cup {F.active_by_pair[key]}]

\* Resolve the key's previous edge into the current day's delta.
ResolvePrevious(F, key) ==
    IF key \notin DOMAIN F.active_by_pair THEN F
    ELSE LET previous == F.active_by_pair[key]
         IN  IF previous \in F.day_add
             THEN [F EXCEPT !.day_add = @ \ {previous}]
             ELSE [F EXCEPT !.day_remove = @ \cup {previous}]

\* Mutant: a signed event adds its edge and leaves the key's previous edge
\* in place.
FrameStepAccumulate(F, event, event_index) ==
    LET day == event.timestamp[1]
        F1 == IF F.current_day = <<>> THEN [F EXCEPT !.current_day = <<day>>]
              ELSE IF day # F.current_day[1]
              THEN [flush_day(F, F.current_day[1], event_index) EXCEPT
                       !.current_day = <<day>>,
                       !.day_add = {},
                       !.day_remove = {}]
              ELSE F
        key == <<event.pair_min_id, event.pair_max_id, event.treaty_type>>
        action == normalize_action(event.action)
    IN  IF action = "signed"
        THEN [F1 EXCEPT
                 !.edge_dict = Append(@, <<event_index, key[1], key[2],
                                           key[3]>>),
                 !.active_by_pair =
                     [k \in DOMAIN F1.active_by_pair \cup {key} |->
                         IF k = key THEN Len(F1.edge_dict)
                         ELSE F1.active_by_pair[k]],
                 !.day_add = @ \cup {Len(F1.edge_dict)}]
        ELSE IF action \in TERMINAL_ACTIONS
        THEN LET F2 == ResolvePrevious(F1, key)
             IN  [F2 EXCEPT
                     !.active_by_pair =
                         [k \in DOMAIN F2.active_by_pair \ {key} |->
                             F2.active_by_pair[k]]]
        ELSE F1

\* The loop body for the event at Python index event_index.
FrameStep(F, event, event_index) ==
    LET day == event.timestamp[1]
        F1 == IF F.current_day = <<>> THEN [F EXCEPT !.current_day = <<day>>]
              ELSE IF day # F.current_day[1]
              THEN [flush_day(F, F.current_day[1], event_index) EXCEPT
                       !.current_day = <<day>>,
                       !.day_add = {},
                       !.day_remove = {}]
              ELSE F
        key == <<event.pair_min_id, event.pair_max_id, event.treaty_type>>
        action == normalize_action(event.action)
    IN  IF action = "signed"
        THEN LET edge_id == Len(F1.edge_dict)
                 F2 == ResolvePrevious(F1, key)
             IN  [F2 EXCEPT
                     !.edge_dict = Append(@, <<event_index, key[1], key[2],
                                               key[3]>>),
                     !.active_by_pair =
                         [k \in DOMAIN F2.active_by_pair \cup {key} |->
                             IF k = key THEN edge_id
                             ELSE F2.active_by_pair[k]],
                     !.day_add = @ \cup {edge_id}]
        ELSE IF action \in TERMINAL_ACTIONS
        THEN LET F2 == ResolvePrevious(F1, key)
             IN  [F2 EXCEPT
                     !.active_by_pair =
                         [k \in DOMAIN F2.active_by_pair \ {key} |->
                             F2.active_by_pair[k]]]
        ELSE F1

RECURSIVE FrameLoop(_, _, _)
FrameLoop(F, events, i) ==
    IF i > Len(events) THEN F
    ELSE FrameLoop(FrameStep(F, events[i], i - 1), events, i + 1)

build_frame_index(events) ==
    LET F == FrameLoop(FrameStart, events, 1)
        G == IF F.current_day # <<>>
             THEN flush_day(F, F.current_day[1], Len(events))
             ELSE F
    IN  [day_keys |-> G.day_keys,
         event_end_offset_by_day |-> G.event_end_offset_by_day,
         edge_dict |-> G.edge_dict,
         active_edge_delta_by_day |-> G.active_edge_delta_by_day]

(***************************************************************************)
(* The post-passes apply_noise_filter and apply_churn_collapse.  Both      *)
(* group the positions of a log by (pair_min_id, pair_max_id, treaty_type) *)
(* in a dict, which iterates its keys in order of first insertion.         *)
(***************************************************************************)
MinutesPerHour == 60

EventKey(ev) == <<ev.pair_min_id, ev.pair_max_id, ev.treaty_type>>

\* The positions in E whose key no earlier position in E has, ascending:
\* the order in which the dict receives its keys.
KeyFirsts(events, E) ==
    SortedInts({i \in E :
        \A j \in E : j < i => EventKey(events[j]) # EventKey(events[i])})

\* by_key[key]: the positions in E of the key of position first, ascending.
KeyGroup(events, E, first) ==
    SortedInts({i \in E : EventKey(events[i]) = EventKey(events[first])})

\* The pairs (prev_idx, curr_idx) the inner loop of the noise filter visits
\* for the groups of the positions firsts[n..], in order.
RECURSIVE AdjacentPairsFrom(_, _, _, _)
AdjacentPairsFrom(events, E, firsts, n) ==
    IF n > Len(firsts) THEN <<>>
    ELSE LET idxs == KeyGroup(events, E, firsts[n])
         IN  [i \in 1..(Len(idxs) - 1) |-> <<idxs[i], idxs[i + 1]>>]
             \o AdjacentPairsFrom(events, E, firsts, n + 1)

\* Mutant: the sources of the two records are not examined.
IsNoisePairAnySource(events, p, window_hours) ==
    LET prev == events[p[1]]
        curr == events[p[2]]
        window == IF window_hours > 1 THEN window_hours ELSE 1
        delta == parse_dt(curr.timestamp) - parse_dt(prev.timestamp)
    IN  /\ {prev.action, curr.action} = {"signed", "cancelled"}
        /\ ~(delta < 0 \/ delta > window)

\* The three tests of the inner loop all pass for the pair p.
IsNoisePair(events, p, window_hours) ==
    LET prev == events[p[1]]
        curr == events[p[2]]
        window == IF window_hours > 1 THEN window_hours ELSE 1
        delta == parse_dt(curr.timestamp) - parse_dt(prev.timestamp)
    IN  /\ {prev.action, curr.action} = {"signed", "cancelled"}
        /\ ~(delta < 0 \/ delta > window)
        /\ ~(prev.source # "bot" \/ curr.source # "bot")

\* The matched pairs in the order the filter meets them.
NoisePairs(events, window_hours) ==
    LET E == 1..Len(events)
    IN  SelectSeq(AdjacentPairsFrom(events, E, KeyFirsts(events, E), 1),
                  LAMBDA p : IsNoisePair(events, p, window_hours))

\* f"opposite_action_within_{window_hours}h"
NoiseReason(window_hours) ==
    "opposite_action_within_" \o ToString(window_hours) \o "h"

\* Mutant: marked records are returned whatever keep_noise is.
apply_noise_filter_keep_all(events, window_hours, keep_noise) ==
    LET pairs == NoisePairs(events, window_hours)
        hit == {pairs[n][1] : n \in 1..Len(pairs)}
                   \cup {pairs[n][2] : n \in 1..Len(pairs)}
        marked == [i \in 1..Len(events) |->
                      IF i \in hit
                      THEN [events[i] EXCEPT
                               !.noise_filtered = TRUE,
                               !.noise_reason = NoiseReason(window_hours)]
                      ELSE events[i]]
        noise_flags ==
            [n \in 1..Len(pairs) |->
                [severity |-> "info",
                 flag |-> "noise_pair_filtered",
                 pair |-> <<events[pairs[n][1]].pair_min_id,
                            events[pairs[n][1]].pair_max_id>>,
                 treaty_type |-> events[pairs[n][1]].treaty_type,
                 prev_event_id |-> events[pairs[n][1]].event_id,
                 curr_event_id |-> events[pairs[n][2]].event_id]]
    IN  [events |-> marked, flags |-> noise_flags]

\* apply_noise_filter: the returned log and flags.
apply_noise_filter(events, window_hours, keep_noise) ==
    LET pairs == NoisePairs(events, window_hours)
        hit == {pairs[n][1] : n \in 1..Len(pairs)}
                   \cup {pairs[n][2] : n \in 1..Len(pairs)}
        marked == [i \in 1..Len(events) |->
                      IF i \in hit
                      THEN [events[i] EXCEPT
                               !.noise_filtered = TRUE,
                               !.noise_reason = NoiseReason(window_hours)]
                      ELSE events[i]]
        noise_flags ==
            [n \in 1..Len(pairs) |->
                [severity |-> "info",
                 flag |-> "noise_pair_filtered",
                 pair |-> <<events[pairs[n][1]].pair_min_id,
                            events[pairs[n][1]].pair_max_id>>,
                 treaty_type |-> events[pairs[n][1]].treaty_type,
                 prev_event_id |-> events[pairs[n][1]].event_id,
                 curr_event_id |-> events[pairs[n][2]].event_id]]
    IN  [events |-> IF keep_noise THEN marked
                    ELSE SelectSeq(marked, LAMBDA ev : ~ev.noise_filtered),
         flags |-> noise_flags]

\* eligible: the positions of the bot-sourced signed and cancelled records.
ChurnEligible(events) ==
    {i \in 1..Len(events) :
        events[i].source = "bot" /\ events[i].action \in {"signed", "cancelled"}}

\* Mutant: a record exactly one window after the first is left out.
RECURSIVE ClusterEndStrict(_, _, _, _, _)
ClusterEndStrict(events, idxs, start, end, window) ==
    IF end + 1 <= Len(idxs)
       /\ (parse_dt(events[idxs[end + 1]].timestamp)
               - parse_dt(events[idxs[start]].timestamp)) * MinutesPerHour
          < window
    THEN ClusterEndStrict(events, idxs, start, end + 1, window)
    ELSE end

\* The inner while loop: the last place of idxs whose record lies within
\* the window of the record at place start.
RECURSIVE ClusterEnd(_, _, _, _, _)
ClusterEnd(events, idxs, start, end, window) ==
    IF end + 1 <= Len(idxs)
       /\ (parse_dt(events[idxs[end + 1]].timestamp)
               - parse_dt(events[idxs[start]].timestamp)) * MinutesPerHour
          <= window
    THEN ClusterEnd(events, idxs, start, end + 1, window)
    ELSE end

\* The outer while loop: the clusters of idxs from place start on.
RECURSIVE ClustersFrom(_, _, _, _)
ClustersFrom(events, idxs, start, window) ==
    IF start > Len(idxs) THEN <<>>
    ELSE LET end == ClusterEnd(events, idxs, start, start, window)
         IN  <<SubSeq(idxs, start, end)>>
                 \o ClustersFrom(events, idxs, end + 1, window)

\* The measures of a cluster the tests and the flag use.
ClusterStats(events, cluster) ==
    LET places == 1..Len(cluster)
        stamps == {events[cluster[n]].timestamp : n \in places}
        count(t) == Cardinality({n \in places :
                                    events[cluster[n]].timestamp = t})
        signed_idxs ==
            SelectSeq(cluster, LAMBDA i : events[i].action = "signed")
        cancelled_idxs ==
            SelectSeq(cluster, LAMBDA i : events[i].action = "cancelled")
    IN  [size |-> Len(cluster),
         signed_idxs |-> signed_idxs,
         cancelled_idxs |-> cancelled_idxs,
         max_same_timestamp |->
             IF stamps = {} THEN 0
             ELSE count(CHOOSE t \in stamps :
                            \A u \in stamps : count(u) <= count(t)),
         unique_timestamps |-> Cardinality(stamps),
         net |-> Len(signed_idxs) - Len(cancelled_idxs)]

Abs(n) == IF n < 0 THEN 0 - n ELSE n

\* Mutant: any balance of signed and cancelled records is collapsed.
ClusterQualifiesAnyNet(events, cluster, minimum) ==
    LET st == ClusterStats(events, cluster)
    IN  /\ ~(st.size < minimum)
        /\ ~(st.signed_idxs = <<>> \/ st.cancelled_idxs = <<>>)
        /\ ~(st.max_same_timestamp < 4)
        /\ ~(st.unique_timestamps
                 > (IF st.size \div 3 > 4 THEN st.size \div 3 ELSE 4))

\* None of the `continue` tests of the cluster loop fires.
ClusterQualifies(events, cluster, minimum) ==
    LET st == ClusterStats(events, cluster)
    IN  /\ ~(st.size < minimum)
        /\ ~(st.signed_idxs = <<>> \/ st.cancelled_idxs = <<>>)
        /\ ~(st.max_same_timestamp < 4)
        /\ ~(st.unique_timestamps
                 > (IF st.size \div 3 > 4 THEN st.size \div 3 ELSE 4))
        /\ ~(Abs(st.net) > 2)

\* seq[-n:] for 0 < n <= Len(seq), as a set.
LastOf(seq, n) == {seq[k] : k \in (Len(seq) - n + 1)..Len(seq)}

\* Mutant: the first records of the surplus action are kept.
ClusterKeepFirst(events, cluster) ==
    LET st == ClusterStats(events, cluster)
    IN  IF st.net > 0
        THEN {st.signed_idxs[k] : k \in 1..st.net}
        ELSE IF st.net < 0
        THEN {st.cancelled_idxs[k] : k \in 1..Abs(st.net)}
        ELSE {}

\* keep: the positions of a qualifying cluster that survive.
ClusterKeep(events, cluster) ==
    LET st == ClusterStats(events, cluster)
    IN  IF st.net > 0 THEN LastOf(st.signed_idxs, st.net)
        ELSE IF st.net < 0 THEN LastOf(st.cancelled_idxs, Abs(st.net))
        ELSE {}

\* The body of the cluster loop: the positions removed and the flags added.
CollapseCluster(events, cluster, minimum) ==
    LET st == ClusterStats(events, cluster)
        keep == ClusterKeep(events, cluster)
        cluster_removed == SelectSeq(cluster, LAMBDA i : i \notin keep)
    IN  IF ~ClusterQualifies(events, cluster, minimum)
           \/ cluster_removed = <<>>
        THEN [removed |-> {}, flags |-> <<>>]
        ELSE [removed |-> {cluster_removed[n] :
                              n \in 1..Len(cluster_removed)},
              flags |->
                  <<[severity |-> "info",
                     flag |-> "churn_cluster_collapsed",
                     pair |-> <<events[cluster[1]].pair_min_id,
                                events[cluster[1]].pair_max_id>>,
                     treaty_type |-> events[cluster[1]].treaty_type,
                     window_start |-> events[cluster[1]].timestamp,
                     window_end |-> events[cluster[Len(cluster)]].timestamp,
                     cluster_events |-> st.size,
                     signed_events |-> Len(st.signed_idxs),
                     cancelled_events |-> Len(st.cancelled_idxs),
                     max_same_timestamp_events |-> st.max_same_timestamp,
                     unique_timestamps |-> st.unique_timestamps,
                     removed_events |-> Len(cluster_removed),
                     kept_events |-> st.size - Len(cluster_removed),
                     net_action_balance |-> st.net]>>]

RECURSIVE CollapseClustersFrom(_, _, _, _)
CollapseClustersFrom(events, clusters, n, minimum) ==
    IF n > Len(clusters) THEN [removed |-> {}, flags |-> <<>>]
    ELSE LET one == CollapseCluster(events, clusters[n], minimum)
             rest == CollapseClustersFrom(events, clusters, n + 1, minimum)
         IN  [removed |-> one.removed \cup rest.removed,
              flags |-> one.flags \o rest.flags]

\* The clusters of the key groups of firsts[n..], in order; a group shorter
\* than minimum has none.
RECURSIVE ChurnClustersFrom(_, _, _, _, _)
ChurnClustersFrom(events, firsts, n, window, minimum) ==
    IF n > Len(firsts) THEN <<>>
    ELSE LET idxs == KeyGroup(events, ChurnEligible(events), firsts[n])
         IN  (IF Len(idxs) < minimum THEN <<>>
              ELSE ClustersFrom(events, idxs, 1, window))
             \o ChurnClustersFrom(events, firsts, n + 1, window, minimum)

\* Every cluster the collapser examines, in order.
ChurnClusters(events, window_minutes, min_events) ==
    LET window == IF window_minutes > 1 THEN window_minutes ELSE 1
        minimum == IF min_events > 2 THEN min_events ELSE 2
    IN  ChurnClustersFrom(events,
            KeyFirsts(events, ChurnEligible(events)), 1, window, minimum)

\* apply_churn_collapse: the returned log and flags.
apply_churn_collapse(events, window_minutes, min_events) ==
    LET minimum == IF min_events > 2 THEN min_events ELSE 2
        R == CollapseClustersFrom(events,
                 ChurnClusters(events, window_minutes, min_events), 1,
                 minimum)
        kept == SortedInts((1..Len(events)) \ R.removed)
    IN  [events |-> [n \in 1..Len(kept) |-> events[kept[n]]],
         flags |-> R.flags]

(***************************************************************************)
(* The state machine: main() calls the loaders, reconcile_events (merge,   *)
(* one replay step per item, final flush and sort), the grounding filter   *)
(* and build_frame_index.                                                  *)
(***************************************************************************)
ReplayState == [active |-> active, out |-> out, flags |-> flags,
                seq |-> next_event_sequence]

\* The value every variable computed later holds before it is computed.
Blank ==
    /\ bot_events = <<>>
    /\ bot_flags = <<>>
    /\ archive_delta_events = <<>>
    /\ all_stream = <<>>
    /\ cursor = 1
    /\ active = <<>>
    /\ out = <<>>
    /\ flags = <<>>
    /\ next_event_sequence = 0
    /\ reconciled = <<>>
    /\ frame_index = build_frame_index(<<>>)
    /\ query = <<>>
    /\ extra_flags = <<>>
    /\ first_run = <<>>
    /\ nation_flags = <<>>
    /\ written = {}
    /\ score_run = <<>>
    /\ census_rows = <<>>
    /\ frame_index_payload = <<>>

\* The census days a list of markers comes from: load_alliance_zero_markers
\* places a marker on a day that follows a day of census.
MarkerDays(markers) ==
    UNION {{parse_dt(markers[i].timestamp) \div HoursPerDay - 1,
            parse_dt(markers[i].timestamp) \div HoursPerDay} :
              i \in 1..Len(markers)}

InitCensus(BotLists, SnapshotLists, Census, Configs) ==
    /\ pc = "load"
    /\ bot_records \in BotLists
    /\ snapshots \in SnapshotLists
    /\ alliance_zero_markers = <<>>
    /\ census_files \in Census
    /\ cfg \in Configs
    /\ grounding_lookup = <<>>
    /\ Blank

InitWith(BotLists, SnapshotLists, MarkerLists, Configs) ==
    /\ pc = "load"
    /\ bot_records \in BotLists
    /\ snapshots \in SnapshotLists
    /\ alliance_zero_markers \in MarkerLists
    /\ census_files = MarkerDays(alliance_zero_markers)
    /\ cfg \in Configs
    /\ grounding_lookup = <<>>
    /\ Blank

\* main: start_day and end_day, None without snapshots.
StartDay(snaps) ==
    IF snaps = <<>> THEN <<>> ELSE <<snaps[1].timestamp \div HoursPerDay>>

EndDay(snaps) ==
    IF snaps = <<>> THEN <<>>
    ELSE <<snaps[Len(snaps)].timestamp \div HoursPerDay>>

\* main: load_archive_snapshots .. load_alliance_zero_markers.
LoadInputs ==
    /\ pc = "load"
    /\ LET loaded == load_bot_events(bot_records)
       IN  /\ bot_events' = loaded.events
           /\ bot_flags' = loaded.flags
           /\ pc' = IF loaded.raised THEN "aborted" ELSE "reconcile"
    /\ archive_delta_events' = build_archive_delta_events(snapshots)
    /\ grounding_lookup' = build_grounding_lookup(snapshots)
    /\ nation_flags' =
          prepare_alliance_archives(census_files, StartDay(snapshots),
                                    EndDay(snapshots)).flags
    /\ UNCHANGED <<bot_records, snapshots, alliance_zero_markers, cfg,
                   all_stream, cursor, active, out, flags,
                   next_event_sequence, reconciled, frame_index, query,
                   extra_flags, first_run,
                   census_files, written, score_run, census_rows,
                   frame_index_payload>>

\* reconcile_events up to the replay loop: concatenate, sort, initialise.
MergeStreams ==
    /\ pc = "reconcile"
    /\ all_stream' = SortStream(ConcatStreams(bot_events, archive_delta_events,
                                              alliance_zero_markers, cfg))
    /\ cursor' = 1
    /\ active' = <<>>
    /\ out' = <<>>
    /\ flags' = <<>>
    /\ next_event_sequence' = 0
    /\ pc' = "replay"
    /\ UNCHANGED <<bot_records, snapshots, alliance_zero_markers, cfg,
                   bot_events, bot_flags, archive_delta_events,
                   grounding_lookup, reconciled, frame_index, query,
                   extra_flags, first_run,
                   census_files, nation_flags, written, score_run, census_rows,
                   frame_index_payload>>

\* One iteration of the replay loop.
ReplayStep ==
    /\ pc = "replay"
    /\ cursor <= Len(all_stream)
    /\ LET R == ReplayItem(ReplayState, all_stream[cursor], grounding_lookup,
                           cfg)
       IN  /\ active' = R.active
           /\ out' = R.out
           /\ flags' = R.flags
           /\ next_event_sequence' = R.seq
    /\ cursor' = cursor + 1
    /\ UNCHANGED <<pc, bot_records, snapshots, alliance_zero_markers, cfg,
                   bot_events, bot_flags, archive_delta_events,
                   grounding_lookup, all_stream, reconciled, frame_index,
                   query,
                   extra_flags, first_run,
                   census_files, nation_flags, written, score_run, census_rows,
                   frame_index_payload>>

\* After the loop: the final flush, the sort of out, and the return to main.
FinishReconcile ==
    /\ pc = "replay"
    /\ cursor > Len(all_stream)
    /\ LET R == flush_expired(ReplayState, DatetimeMax, grounding_lookup, cfg)
           sorted == SortOut(R.out)
       IN  /\ active' = R.active
           /\ out' = sorted
           /\ flags' = R.flags
           /\ next_event_sequence' = R.seq
           /\ reconciled' = sorted
    /\ pc' = "filter"
    /\ UNCHANGED <<bot_records, snapshots, alliance_zero_markers, cfg,
                   bot_events, bot_flags, archive_delta_events,
                   grounding_lookup, all_stream, cursor, frame_index, query,
                   extra_flags, first_run,
                   census_files, nation_flags, written, score_run, census_rows,
                   frame_index_payload>>

\* main: drop the records the grounding policy rejects.
Top50Filter ==
    /\ pc = "filter"
    /\ reconciled' = IF cfg.top50_mode # "off"
                     THEN SelectSeq(reconciled, LAMBDA r : r.grounded_keep)
                     ELSE reconciled
    /\ pc' = "churn"
    /\ UNCHANGED <<bot_records, snapshots, alliance_zero_markers, cfg,
                   bot_events, bot_flags, archive_delta_events,
                   grounding_lookup, all_stream, cursor, active, out, flags,
                   next_event_sequence, frame_index, query,
                   extra_flags, first_run,
                   census_files, nation_flags, written, score_run, census_rows,
                   frame_index_payload>>


\* Mutant: the churn collapser receives the log the noise filter returns.
ChurnCollapseAfterNoise ==
    /\ pc = "churn"
    /\ LET N == IF cfg.filter_noise
                THEN apply_noise_filter(reconciled, cfg.noise_window_hours,
                                        cfg.keep_noise)
                ELSE [events |-> reconciled, flags |-> <<>>]
           R == IF cfg.collapse_churn
                THEN apply_churn_collapse(N.events,
                         cfg.churn_window_minutes, cfg.churn_min_events)
                ELSE [events |-> N.events, flags |-> <<>>]
       IN  /\ reconciled' = R.events
           /\ extra_flags' = extra_flags \o N.flags \o R.flags
    /\ pc' = "noise"
    /\ UNCHANGED <<bot_records, snapshots, alliance_zero_markers, cfg,
                   bot_events, bot_flags, archive_delta_events,
                   grounding_lookup, all_stream, cursor, active, out, flags,
                   next_event_sequence, frame_index, query, first_run,
                   census_files, nation_flags, written, score_run, census_rows,
                   frame_index_payload>>

\* main: the churn collapse pass, when it is enabled.
ChurnCollapse ==
    /\ pc = "churn"
    /\ LET R == IF cfg.collapse_churn
                THEN apply_churn_collapse(reconciled,
                         cfg.churn_window_minutes, cfg.churn_min_events)
                ELSE [events |-> reconciled, flags |-> <<>>]
       IN  /\ reconciled' = R.events
           /\ extra_flags' = extra_flags \o R.flags
    /\ pc' = "noise"
    /\ UNCHANGED <<bot_records, snapshots, alliance_zero_markers, cfg,
                   bot_events, bot_flags, archive_delta_events,
                   grounding_lookup, all_stream, cursor, active, out, flags,
                   next_event_sequence, frame_index, query, first_run,
                   census_files, nation_flags, written, score_run, census_rows,
                   frame_index_payload>>

\* main: the noise filter pass, when it is enabled.
NoiseFilter ==
    /\ pc = "noise"
    /\ LET R == IF cfg.filter_noise
                THEN apply_noise_filter(reconciled, cfg.noise_window_hours,
                                        cfg.keep_noise)
                ELSE [events |-> reconciled, flags |-> <<>>]
       IN  /\ reconciled' = R.events
           /\ extra_flags' = extra_flags \o R.flags
    /\ pc' = "index"
    /\ UNCHANGED <<bot_records, snapshots, alliance_zero_markers, cfg,
                   bot_events, bot_flags, archive_delta_events,
                   grounding_lookup, all_stream, cursor, active, out, flags,
                   next_event_sequence, frame_index, query, first_run,
                   census_files, nation_flags, written, score_run, census_rows,
                   frame_index_payload>>

\* main: build the frame index of the final log and write the artifacts.
BuildFrameIndex ==
    /\ pc = "index"
    /\ frame_index' = build_frame_index(reconciled)
    /\ written' = {"reconciled", "summary", "flags", "frame_index"}
    /\ pc' = "done"
    /\ UNCHANGED <<bot_records, snapshots, alliance_zero_markers, cfg,
                   bot_events, bot_flags, archive_delta_events,
                   grounding_lookup, all_stream, cursor, active, out, flags,
                   next_event_sequence, reconciled, query,
                   extra_flags, first_run,
                   census_files, nation_flags, score_run, census_rows,
                   frame_index_payload>>

Next ==
    \/ LoadInputs
    \/ MergeStreams
    \/ ReplayStep
    \/ FinishReconcile
    \/ Top50Filter
    \/ ChurnCollapse
    \/ NoiseFilter
    \/ BuildFrameIndex

(***************************************************************************)
(* A grounded_count call on a lookup of its own.                           *)
(***************************************************************************)
GroundedQuery ==
    /\ pc = "query"
    /\ \E when \in 0..MaxWhen, aid \in {1, 2} :
           query' = <<[when |-> when, aid |-> aid,
                       result |-> grounded_count(grounding_lookup, when,
                                                 aid)]>>
    /\ UNCHANGED <<pc, bot_records, snapshots, alliance_zero_markers, cfg,
                   bot_events, bot_flags, archive_delta_events,
                   grounding_lookup, all_stream, cursor, active, out, flags,
                   next_event_sequence, reconciled, frame_index,
                   extra_flags, first_run,
                   census_files, nation_flags, written, score_run, census_rows,
                   frame_index_payload>>

NextGround == GroundedQuery

(***************************************************************************)
(* Inputs.                                                                 *)
(***************************************************************************)
BoundedSeq(S, n) == UNION {[1..k -> S] : k \in 0..n}

\* A well-formed record of treaties.json; unusable names the fields among
\* timestamp, from_alliance_id and to_alliance_id that a record lacks or
\* that cannot be parsed.
BotRecord(action, ts, from, to, type, turns) ==
    [action |-> action,
     timestamp |-> dt_to_iso(ts),
     from_alliance_id |-> from,
     to_alliance_id |-> to,
     treaty_type |-> <<type>>,
     time_remaining_turns |-> turns,
     unusable |-> {}]

\* A record of treaties.json without an action.
NoActionRecord == BotRecord("", 0, 1, 2, "MDP", <<>>)

\* The options main reads; the post-passes are off and their parameters
\* have the defaults of parse_args.
Config(mode, expiry, deletion) ==
    [top50_mode |-> mode,
     infer_expiry_cancels |-> expiry,
     infer_deletion_cancels |-> deletion,
     deletion_confirmation_days |-> 1,
     collapse_churn |-> FALSE,
     churn_window_minutes |-> 10,
     churn_min_events |-> 20,
     filter_noise |-> FALSE,
     noise_window_hours |-> 24,
     keep_noise |-> FALSE]

Snapshot(ts, node_ids, edges) ==
    [timestamp |-> ts, node_ids |-> node_ids, edges |-> edges]

\* Instants of the bot records: two, twelve hours apart.
BotTimes == {0, 12}

\* Records of the replay specification: one relationship that is opened
\* (expiring at once or 12 h later), refreshed to no expiry and closed, and
\* a second relationship on another pair.
ReplayRecords ==
    {BotRecord("signed", t, 1, 2, "MDP", n) :
        t \in BotTimes, n \in {<<0>>, <<6>>}}
    \cup {BotRecord("extended", t, 1, 2, "MDP", <<>>) : t \in BotTimes}
    \cup {BotRecord("cancelled", t, 1, 2, "MDP", <<>>) : t \in BotTimes}
    \cup {BotRecord("signed", 0, 3, 2, "NAP", <<0>>)}

ReplayMarkers == {<<>>, <<ZeroMarker(12, 1)>>}

ReplayConfigs == {Config("off", e, d) : e \in BOOLEAN, d \in BOOLEAN}

Init ==
    InitWith(BoundedSeq(ReplayRecords, MaxBot), {<<>>}, ReplayMarkers,
             ReplayConfigs)

Spec == Init /\ [][Next]_vars

\* Records of the type-inference specification: two types that can be open
\* on one pair, and every action on an empty and on an UNKNOWN type.
TypeRecords ==
    {BotRecord("signed", 0, 1, 2, t, <<>>) : t \in {"MDP", "NAP"}}
    \cup {BotRecord("cancelled", 0, 1, 2, "MDP", <<>>)}
    \cup {BotRecord(a, 0, 1, 2, t, <<>>) :
             a \in {"signed", "extended", "cancelled", "expired", "ended"},
             t \in {"", "UNKNOWN"}}

InitType ==
    InitWith(BoundedSeq(TypeRecords, MaxBot), {<<>>}, {<<>>},
             {Config("off", FALSE, FALSE)})

SpecType == InitType /\ [][Next]_vars

\* Records of the merge specification, preceded by no or by MalformedLead
\* records without an action, which load_bot_events numbers and drops.
MalformedLead == 9

MergeRecords ==
    {BotRecord(a, t, 1, 2, "MDP", <<>>) :
        a \in {"signed", "cancelled"}, t \in BotTimes}

MergeBotLists(lead, longest) ==
    {[i \in 1..k |-> NoActionRecord] \o l :
        k \in {0, lead}, l \in BoundedSeq(MergeRecords, longest)}

MergeSnapshotLists ==
    {<<>>,
     <<Snapshot(0, {1, 2}, {}), Snapshot(12, {1, 2}, {<<1, 2, "MDP">>})>>,
     <<Snapshot(0, {1, 2}, {<<1, 2, "MDP">>, <<1, 2, "ODP">>}),
       Snapshot(12, {1}, {<<1, 2, "NAP">>})>>}

MergeMarkers == {<<>>, <<ZeroMarker(12, 1)>>}

InitMerge ==
    InitWith(MergeBotLists(MalformedLead, MaxBot), MergeSnapshotLists,
             MergeMarkers,
             {Config("off", FALSE, d) : d \in BOOLEAN})

SpecMerge == InitMerge /\ [][Next]_vars

\* Lookups of the grounding specification: every time-ascending lookup of
\* at most MaxLookup snapshots over two alliances.
AscendingLookups(last, longest) ==
    {l \in BoundedSeq((0..last) \X SUBSET {1, 2}, longest) :
        \A i \in 1..(Len(l) - 1) : l[i][1] <= l[i + 1][1]}

InitGround ==
    /\ pc = "query"
    /\ bot_records = <<>>
    /\ snapshots = <<>>
    /\ alliance_zero_markers = <<>>
    /\ cfg = Config("off", FALSE, FALSE)
    /\ census_files = {}
    /\ grounding_lookup \in AscendingLookups(MaxWhen, MaxLookup)
    /\ Blank

SpecGround == InitGround /\ [][NextGround]_vars

(***************************************************************************)
(* The post-passes and the frame index on a reconciled log of their own.   *)
(***************************************************************************)
\* main from the churn collapse pass on.
NextPost ==
    \/ ChurnCollapse
    \/ NoiseFilter
    \/ BuildFrameIndex

\* The kinds of record the logs are drawn from.
Kind(source, action, a, b, treaty_type) ==
    [source |-> source, action |-> action, pair |-> <<a, b>>,
     treaty_type |-> treaty_type]

\* The stream item of a kind at an instant: the event load_bot_events makes
\* of record idx, or a delta build_archive_delta_events makes.
KindItem(kind, ts, idx) ==
    IF kind.source = "bot"
    THEN WithAction(
             BotBase(BotRecord(kind.action, ts, kind.pair[1], kind.pair[2],
                               kind.treaty_type, <<>>), idx),
             kind.action, kind.treaty_type)
    ELSE ArchiveEvent(Snapshot(ts, {}, {}), 1,
                      <<kind.pair[1], kind.pair[2], kind.treaty_type>>,
                      kind.action = "signed")

\* The log reconcile_events emits for items of the given kinds and instants,
\* each emitted when it is processed.
LogOf(kinds, stamps) ==
    [n \in 1..Len(kinds) |->
        Stamp(EventRecord(KindItem(kinds[n], stamps[n], n - 1),
                          kinds[n].action, kinds[n].treaty_type,
                          kinds[n].pair, <<>>, "off"),
              n - 1)]

\* The non-decreasing sequences of k instants out of T.
AscendingStamps(T, k) ==
    {st \in [1..k -> T] : \A i \in 1..(k - 1) : st[i] <= st[i + 1]}

\* The logs of at most n records of the kinds K at instants out of T.
LogsOver(K, T, n) ==
    UNION {{LogOf(kinds, st) :
               kinds \in [1..k -> K], st \in AscendingStamps(T, k)} :
           k \in 0..n}

PostConfig(churn, window_minutes, min_events, noise, window_hours, keep) ==
    [Config("off", FALSE, FALSE) EXCEPT
        !.collapse_churn = churn,
        !.churn_window_minutes = window_minutes,
        !.churn_min_events = min_events,
        !.filter_noise = noise,
        !.noise_window_hours = window_hours,
        !.keep_noise = keep]

\* main has the log reconcile_events returned, grounding off, and is about
\* to run the post-passes.
InitPost(Logs, Configs) ==
    /\ pc = "churn"
    /\ reconciled \in Logs
    /\ cfg \in Configs
    /\ bot_records = <<>>
    /\ snapshots = <<>>
    /\ alliance_zero_markers = <<>>
    /\ bot_events = <<>>
    /\ bot_flags = <<>>
    /\ archive_delta_events = <<>>
    /\ grounding_lookup = <<>>
    /\ all_stream = <<>>
    /\ cursor = 1
    /\ active = <<>>
    /\ out = reconciled
    /\ flags = <<>>
    /\ next_event_sequence = Len(reconciled)
    /\ frame_index = build_frame_index(<<>>)
    /\ query = <<>>
    /\ extra_flags = <<>>
    /\ first_run = <<>>
    /\ census_files = {}
    /\ nation_flags = <<>>
    /\ written = {}
    /\ score_run = <<>>
    /\ census_rows = <<>>
    /\ frame_index_payload = <<>>

\* Longest log of the noise filter specification.
MaxNoiseLog == 3

NoiseKinds ==
    {Kind("bot", "signed", 1, 2, "MDP"),
     Kind("bot", "cancelled", 1, 2, "MDP"),
     Kind("bot", "extended", 1, 2, "MDP"),
     Kind("archive_delta", "cancelled", 1, 2, "MDP"),
     Kind("bot", "signed", 1, 3, "MDP")}

\* Instants of the noise logs: zero to three hours apart.
NoiseTimes == 0..3

\* The filter on, with a window of no hours and of two, keeping or not.
NoiseConfigs ==
    {PostConfig(FALSE, 10, 20, TRUE, w, k) : w \in {0, 2}, k \in BOOLEAN}

InitNoise ==
    InitPost(LogsOver(NoiseKinds, NoiseTimes, MaxNoiseLog), NoiseConfigs)

SpecNoise == InitNoise /\ [][NextPost]_vars

\* Longest log of the frame index specification.
MaxFrameLog == 4

FrameKinds ==
    {Kind("bot", "signed", 1, 2, "MDP"),
     Kind("bot", "cancelled", 1, 2, "MDP"),
     Kind("bot", "extended", 1, 2, "MDP"),
     Kind("bot", "signed", 1, 3, "MDP")}

\* Instants of the frame logs: the starts of three consecutive days.
FrameTimes == {0, 24, 48}

InitFrame ==
    InitPost(LogsOver(FrameKinds, FrameTimes, MaxFrameLog),
             {Config("off", FALSE, FALSE)})

SpecFrame == InitFrame /\ [][NextPost]_vars

\* Most records of the churn logs at one instant, and most at one per hour
\* after it.
MaxDense == 5
MaxSparse == 4

\* A churn log: h bot signed and cancelled records of one relationship at
\* instant 0 and t more at the hours 1..t, their actions given by acts;
\* with others, an archive delta, a bot refresh and a bot record of another
\* pair stand among them.
ChurnLog(h, t, acts, others) ==
    LET burst(n) == Kind("bot", acts[n], 1, 2, "MDP")
        dense == [n \in 1..h |-> burst(n)]
        sparse == [n \in 1..t |-> burst(h + n)]
        front == IF others THEN <<Kind("archive_delta", "signed", 1, 2, "MDP")>>
                 ELSE <<>>
        mid == IF others THEN <<Kind("bot", "extended", 1, 2, "MDP")>>
               ELSE <<>>
        back == IF others THEN <<Kind("bot", "signed", 1, 3, "MDP")>>
                ELSE <<>>
    IN  LogOf(front \o dense \o mid \o sparse \o back,
              [n \in 1..Len(front) |-> 0] \o [n \in 1..h |-> 0]
                  \o [n \in 1..Len(mid) |-> 0] \o [n \in 1..t |-> n]
                  \o [n \in 1..Len(back) |-> t])

\* The churn logs of at most dense records at the first instant and at
\* most sparse after it.
ChurnLogs(dense, sparse) ==
    UNION {{ChurnLog(h, t, acts, others) :
               acts \in [1..(h + t) -> {"signed", "cancelled"}],
               others \in BOOLEAN} :
           h \in 0..dense, t \in 0..sparse}

\* The collapser on with a window of ten minutes or four hours and a
\* minimum of two or six records; the noise filter off or on.
ChurnConfigs ==
    {PostConfig(TRUE, wm[1], wm[2], noise, 24, FALSE) :
        wm \in {10, 240} \X {2, 6}, noise \in BOOLEAN}

InitChurn == InitPost(ChurnLogs(MaxDense, MaxSparse), ChurnConfigs)

SpecChurn == InitChurn /\ [][NextPost]_vars

\* A record of treaties.json that changes a relationship from one type to
\* another: its treaty_type is "old->new".
UpgradeRecord(action, ts, from, to, old, new, turns) ==
    [BotRecord(action, ts, from, to, old, turns) EXCEPT
        !.treaty_type = <<old, new>>]

\* Records of the upgrade specification: upgrades and a downgrade that
\* share their instant with one another and with an opening that expires
\* at once and a closure, and an upgrade at the instant of the archive
\* deltas and the marker.
UpgradeRecords ==
    {UpgradeRecord("upgraded", 0, 1, 2, "ODP", "MDP", <<0>>),
     UpgradeRecord("downgraded", 0, 2, 1, "MDP", "ODP", <<>>),
     BotRecord("signed", 0, 1, 2, "ODP", <<0>>),
     BotRecord("cancelled", 0, 1, 2, "MDP", <<>>),
     UpgradeRecord("upgraded", 12, 1, 2, "ODP", "MDP", <<>>)}

\* The records follow no or MalformedLead records without an action.
UpgradeBotLists(lead, longest) ==
    {[i \in 1..k |-> NoActionRecord] \o l :
        k \in {0, lead}, l \in BoundedSeq(UpgradeRecords, longest)}

InitUpgrade ==
    InitWith(UpgradeBotLists(MalformedLead, MaxBot), MergeSnapshotLists,
             {<<ZeroMarker(12, 1)>>},
             {Config("off", TRUE, d) : d \in BOOLEAN})

SpecUpgrade == InitUpgrade /\ [][Next]_vars

\* Records of the grounding-policy specification: an opening that expires
\* six hours later, an opening named from the larger id, a closure and a
\* later opening that expires at once.
KeepRecords ==
    {BotRecord("signed", 0, 1, 2, "MDP", <<3>>),
     BotRecord("signed", 0, 3, 2, "NAP", <<>>),
     BotRecord("cancelled", 12, 2, 1, "MDP", <<>>),
     BotRecord("signed", 12, 1, 3, "MDP", <<0>>)}

\* Snapshots whose node sets differ from one to the next, the first taken
\* at or after the first records.
KeepSnapshotLists ==
    {<<>>,
     <<Snapshot(0, {1}, {}), Snapshot(12, {1, 2, 3}, {<<1, 2, "MDP">>})>>,
     <<Snapshot(6, {2}, {}), Snapshot(12, {3}, {})>>}

KeepConfigs == {Config(m, TRUE, TRUE) : m \in {"off", "semi", "strict"}}

InitKeep ==
    InitWith(BoundedSeq(KeepRecords, MaxBot), KeepSnapshotLists,
             {<<ZeroMarker(12, 1)>>}, KeepConfigs)

SpecKeep == InitKeep /\ [][Next]_vars

\* Records of the flush specification: two openings at instant 0, the one
\* expiring after 20 hours and the other after 10, an opening at the
\* marker's instant that expires at once, and a later opening.
FlushRecords ==
    {BotRecord("signed", 0, 1, 2, "MDP", <<10>>),
     BotRecord("signed", 0, 2, 3, "NAP", <<5>>),
     BotRecord("signed", 12, 1, 3, "MDP", <<0>>),
     BotRecord("signed", 24, 1, 3, "ODP", <<>>)}

FlushConfigs == {Config("off", e, d) : e \in BOOLEAN, d \in BOOLEAN}

InitFlush ==
    InitWith(BoundedSeq(FlushRecords, MaxBot), {<<>>},
             {<<>>, <<ZeroMarker(12, 1)>>}, FlushConfigs)

SpecFlush == InitFlush /\ [][Next]_vars

\* A record whose named fields are absent or cannot be parsed.
Unusable(rec, fields) == [rec EXCEPT !.unusable = fields]

\* Records of the loading specification: two well-formed ones, one without
\* an action, an upgrade whose type has no arrow, and records that lack the
\* timestamp, an alliance id, or the action together with an alliance id.
LoadRecords ==
    {BotRecord("signed", 0, 1, 2, "MDP", <<>>),
     BotRecord("cancelled", 12, 2, 1, "MDP", <<>>),
     NoActionRecord,
     BotRecord("upgraded", 0, 1, 2, "MDP", <<>>),
     Unusable(BotRecord("signed", 0, 1, 2, "MDP", <<>>), {"timestamp"}),
     Unusable(BotRecord("signed", 0, 1, 2, "MDP", <<>>), {"from_alliance_id"}),
     Unusable(BotRecord("signed", 0, 1, 2, "MDP", <<>>), {"to_alliance_id"}),
     Unusable(NoActionRecord, {"from_alliance_id"})}

InitLoad ==
    InitWith(BoundedSeq(LoadRecords, MaxBot), {<<>>}, {<<>>},
             {Config("off", FALSE, FALSE)})

SpecLoad == InitLoad /\ [][Next]_vars

\* Inputs of the archive-delta specification: up to MaxSnapshots snapshots
\* at instants that do not decrease, each with any of the DeltaEdges.
MaxSnapshots == 3

DeltaEdges == {<<1, 2, "MDP">>, <<1, 2, "ODP">>, <<1, 3, "MDP">>}

DeltaSnapshotLists(longest) ==
    UNION {{[i \in 1..k |-> Snapshot(st[i], {1, 2, 3}, edges[i])] :
               st \in AscendingStamps({0, 12}, k),
               edges \in [1..k -> SUBSET DeltaEdges]} :
           k \in 0..longest}

InitDelta ==
    InitWith({<<>>}, DeltaSnapshotLists(MaxSnapshots), {<<>>},
             {Config("off", FALSE, FALSE)})

SpecDelta == InitDelta /\ [][Next]_vars

\* Records of the expiry-order specification: a relationship that expires
\* at 06:00 and one of another type on the same pair that does not expire,
\* then typed and untyped refreshes and closures at the instant of the
\* expiry and after it.
ExpiryRecords ==
    {BotRecord("signed", 0, 1, 2, "MDP", <<3>>),
     BotRecord("signed", 0, 1, 2, "NAP", <<>>),
     BotRecord("extended", 6, 1, 2, "MDP", <<1>>),
     BotRecord("extended", 12, 2, 1, "MDP", <<>>),
     BotRecord("cancelled", 12, 1, 2, "MDP", <<>>),
     BotRecord("extended", 12, 1, 2, "", <<>>),
     BotRecord("cancelled", 12, 1, 2, "", <<>>)}

ExpiryConfigs == {Config("off", e, d) : e \in BOOLEAN, d \in BOOLEAN}

InitExpiry ==
    InitWith(BoundedSeq(ExpiryRecords, MaxBot), {<<>>},
             {<<>>, <<ZeroMarker(12, 3)>>}, ExpiryConfigs)

SpecExpiry == InitExpiry /\ [][Next]_vars

\* Records of the open-and-refresh specification: openings and refreshes of
\* one relationship whose turns are absent, negative, zero or positive, at
\* three instants six hours apart.
OpenRecords ==
    {BotRecord("signed", 0, 1, 2, "MDP", <<6>>),
     BotRecord("signed", 6, 2, 1, "MDP", <<-1>>),
     BotRecord("signed", 6, 1, 2, "MDP", <<>>),
     BotRecord("extended", 0, 1, 2, "MDP", <<0>>),
     BotRecord("extended", 6, 1, 2, "MDP", <<6>>),
     BotRecord("extended", 12, 2, 1, "MDP", <<>>),
     BotRecord("extended", 12, 1, 2, "MDP", <<-1>>)}

OpenConfigs == {Config("off", e, FALSE) : e \in BOOLEAN}

InitOpen ==
    InitWith(BoundedSeq(OpenRecords, MaxBot), {<<>>}, {<<>>}, OpenConfigs)

SpecOpen == InitOpen /\ [][Next]_vars

\* Inputs of the structural-input specification: the archive with and
\* without snapshots, the census directory with and without files, inside
\* and outside the days of the snapshots.
FatalRecords ==
    {BotRecord("signed", 0, 1, 2, "MDP", <<>>),
     BotRecord("cancelled", 12, 1, 2, "MDP", <<>>),
     BotRecord("signed", 12, 1, 3, "ODP", <<0>>)}

FatalSnapshotLists ==
    {<<>>,
     <<Snapshot(0, {1, 2}, {}), Snapshot(12, {1, 2}, {<<1, 2, "MDP">>})>>}

FatalCensus == {{}, {0}, {1}}

InitFatal ==
    InitCensus(BoundedSeq(FatalRecords, MaxBot), FatalSnapshotLists,
               FatalCensus, {Config("off", TRUE, TRUE)})

SpecFatal == InitFatal /\ [][Next]_vars

(***************************************************************************)
(* score.py main.  The size of a packed payload is a number of bytes; the  *)
(* frame index payload is <<>> when there is neither a frame index file    *)
(* nor an events file to build one from.                                   *)
(***************************************************************************)
\* main up to the scores and ranks files: the options are validated, the
\* scores are packed and measured, and both files are written.
WriteScores ==
    /\ pc = "score"
    /\ IF \/ score_run.max_score_bytes <= 0
          \/ score_run.max_frame_index_bytes <= 0
          \/ score_run.scores_bytes > score_run.max_score_bytes
       THEN pc' = "score_failed" /\ written' = written
       ELSE pc' = "score_frame" /\ written' = written \cup {"scores", "ranks"}
    /\ UNCHANGED <<bot_records, snapshots, alliance_zero_markers, cfg,
                   bot_events, bot_flags, archive_delta_events,
                   grounding_lookup, all_stream, cursor, active, out, flags,
                   next_event_sequence, reconciled, frame_index, query,
                   extra_flags, first_run, census_files, nation_flags,
                   score_run, census_rows,
                   frame_index_payload>>

\* main from load_frame_index on: the frame index, when there is one, is
\* packed, measured and written.
WriteFrameIndex ==
    /\ pc = "score_frame"
    /\ IF score_run.frame_index_bytes = <<>>
       THEN pc' = "score_done" /\ written' = written
       ELSE IF score_run.frame_index_bytes[1] > score_run.max_frame_index_bytes
       THEN pc' = "score_failed" /\ written' = written
       ELSE pc' = "score_done" /\ written' = written \cup {"frame_index"}
    /\ UNCHANGED <<bot_records, snapshots, alliance_zero_markers, cfg,
                   bot_events, bot_flags, archive_delta_events,
                   grounding_lookup, all_stream, cursor, active, out, flags,
                   next_event_sequence, reconciled, frame_index, query,
                   extra_flags, first_run, census_files, nation_flags,
                   score_run, census_rows,
                   frame_index_payload>>

\* score.py's normalize_action.
score_normalize_action(raw) ==
    IF raw \in {"terminated", "termination"} THEN "ended" ELSE raw

\* Mutant: the terminal actions without the inferred cancellation.
terminal_actions_reported == {"cancelled", "expired", "ended"}

\* The terminal actions of build_frame_index_from_events.
terminal_actions == {"cancelled", "expired", "ended", "inferred_cancelled"}

\* The loop body of build_frame_index_from_events; its locals, its
\* flush_day and its handling of a key's previous edge are those of
\* build_frame_index, line for line.
ScoreFrameStep(F, event, event_index) ==
    LET day == event.timestamp[1]
        F1 == IF F.current_day = <<>> THEN [F EXCEPT !.current_day = <<day>>]
              ELSE IF day # F.current_day[1]
              THEN [flush_day(F, F.current_day[1], event_index) EXCEPT
                       !.current_day = <<day>>,
                       !.day_add = {},
                       !.day_remove = {}]
              ELSE F
        pair_min == event.pair_min_id
        pair_max == event.pair_max_id
        key == <<pair_min, pair_max, event.treaty_type>>
        action == score_normalize_action(event.action)
    IN  IF action = "signed"
        THEN LET edge_id == Len(F1.edge_dict)
                 F2 == ResolvePrevious(F1, key)
             IN  [F2 EXCEPT
                     !.edge_dict = Append(@, <<event_index, pair_min, pair_max,
                                               event.treaty_type>>),
                     !.active_by_pair =
                         [k \in DOMAIN F2.active_by_pair \cup {key} |->
                             IF k = key THEN edge_id
                             ELSE F2.active_by_pair[k]],
                     !.day_add = @ \cup {edge_id}]
        ELSE IF action \in terminal_actions
        THEN LET F2 == ResolvePrevious(F1, key)
             IN  [F2 EXCEPT
                     !.active_by_pair =
                         [k \in DOMAIN F2.active_by_pair \ {key} |->
                             F2.active_by_pair[k]]]
        ELSE F1

RECURSIVE ScoreFrameLoop(_, _, _)
ScoreFrameLoop(F, events, i) ==
    IF i > Len(events) THEN F
    ELSE ScoreFrameLoop(ScoreFrameStep(F, events[i], i - 1), events, i + 1)

build_frame_index_from_events(events) ==
    LET F == ScoreFrameLoop(FrameStart, events, 1)
        G == IF F.current_day # <<>>
             THEN flush_day(F, F.current_day[1], Len(events))
             ELSE F
    IN  [day_keys |-> G.day_keys,
         event_end_offset_by_day |-> G.event_end_offset_by_day,
         edge_dict |-> G.edge_dict,
         active_edge_delta_by_day |-> G.active_edge_delta_by_day]

\* score.py's main when the events file is there and the frame index file
\* is not: the frame index is rebuilt from the events.
RebuildFrameIndex ==
    /\ pc = "done"
    /\ frame_index_payload' = <<build_frame_index_from_events(reconciled)>>
    /\ pc' = "rebuilt"
    /\ UNCHANGED <<bot_records, snapshots, alliance_zero_markers, cfg,
                   bot_events, bot_flags, archive_delta_events,
                   grounding_lookup, all_stream, cursor, active, out, flags,
                   next_event_sequence, reconciled, frame_index, query,
                   extra_flags, first_run, census_files, nation_flags,
                   written, score_run, census_rows>>

NextBuilders == NextPost \/ RebuildFrameIndex

\* Longest event sequence given to the two builders.
MaxBuilderLog == 3

\* The kinds of record of the builders' event sequences: every action the
\* builders tell apart, the aliases among them.
BuilderKinds ==
    {Kind("bot", "signed", 1, 2, "MDP"),
     Kind("bot", "cancelled", 1, 2, "MDP"),
     Kind("bot", "extended", 1, 2, "MDP"),
     Kind("bot", "ended", 1, 2, "MDP"),
     Kind("bot", "terminated", 1, 2, "MDP"),
     Kind("bot", "termination", 1, 2, "MDP"),
     Kind("expiry_inferred", "inferred_cancelled", 1, 2, "MDP"),
     Kind("bot", "signed", 1, 3, "MDP")}

\* The record of a kind at an instant, as reconcile_events emits it.
BuilderRecord(kind, ts, n) ==
    IF kind.source = "bot"
    THEN Stamp(EventRecord(KindItem(kind, ts, n - 1), kind.action,
                           kind.treaty_type, kind.pair, <<>>, "off"), n - 1)
    ELSE Stamp(InferredRecord(<<>>, "off", kind.pair, kind.treaty_type, ts,
                   kind.source, <<>>, "low",
                   "time_remaining_elapsed_without_terminal_event"), n - 1)

\* The event sequences of at most longest records.
BuilderLogs(longest) ==
    UNION {{[n \in 1..k |-> BuilderRecord(kinds[n], st[n], n)] :
               kinds \in [1..k -> BuilderKinds],
               st \in AscendingStamps(FrameTimes, k)} :
           k \in 0..longest}

InitBuilders ==
    InitPost(BuilderLogs(MaxBuilderLog), {Config("off", FALSE, FALSE)})

SpecBuilders == InitBuilders /\ [][NextBuilders]_vars

NextScore == WriteScores \/ WriteFrameIndex

\* Largest payload and largest limit of the score specification, in bytes.
MaxBytes == 5

ScoreRuns ==
    [scores_bytes : 1..MaxBytes,
     frame_index_bytes : {<<>>} \cup {<<n>> : n \in 1..MaxBytes},
     max_score_bytes : 0..MaxBytes - 1,
     max_frame_index_bytes : 0..MaxBytes - 1]

InitScore ==
    /\ pc = "score"
    /\ score_run \in ScoreRuns
    /\ bot_records = <<>>
    /\ snapshots = <<>>
    /\ alliance_zero_markers = <<>>
    /\ census_files = {}
    /\ cfg = Config("off", FALSE, FALSE)
    /\ grounding_lookup = <<>>
    /\ bot_events = <<>>
    /\ bot_flags = <<>>
    /\ archive_delta_events = <<>>
    /\ all_stream = <<>>
    /\ cursor = 1
    /\ active = <<>>
    /\ out = <<>>
    /\ flags = <<>>
    /\ next_event_sequence = 0
    /\ reconciled = <<>>
    /\ frame_index = build_frame_index(<<>>)
    /\ query = <<>>
    /\ extra_flags = <<>>
    /\ first_run = <<>>
    /\ nation_flags = <<>>
    /\ written = {}
    /\ census_rows = <<>>
    /\ frame_index_payload = <<>>

SpecScore == InitScore /\ [][NextScore]_vars

(***************************************************************************)
(* load_alliance_zero_markers.  rows maps each census day that has a file  *)
(* to the alliance ids of the file's rows, in row order.                   *)
(***************************************************************************)
\* The ids of seq that are positive and not in keys, appended to keys.
RECURSIVE AppendNew(_, _, _)
AppendNew(keys, seq, n) ==
    IF n > Len(seq) THEN keys
    ELSE AppendNew(IF seq[n] > 0 /\ \A k \in 1..Len(keys) : keys[k] # seq[n]
                   THEN Append(keys, seq[n]) ELSE keys,
                   seq, n + 1)

\* The keys of alliance_daily_presence in insertion order, the files read
\* in the order of their days from place n on.
RECURSIVE PresenceKeys(_, _, _, _)
PresenceKeys(rows, days, n, keys) ==
    IF n > Len(days) THEN keys
    ELSE PresenceKeys(rows, days, n + 1, AppendNew(keys, rows[days[n]], 1))

\* alliance_daily_presence[aid]
PresentDays(rows, aid) ==
    {d \in DOMAIN rows : \E k \in 1..Len(rows[d]) : rows[d][k] = aid}

\* The test of the inner loop at Python index idx.
ZeroFrom(ordered_days, present_days, idx, confirm) ==
    /\ ordered_days[idx] \in present_days
    /\ \A k \in (idx + 1)..(idx + confirm) : ordered_days[k] \notin present_days

\* Mutant: the last index that passes the test is taken.
LastZeroIndex(ordered_days, present_days, confirm) ==
    LET hits == {idx \in 1..(Len(ordered_days) - confirm) :
                    ZeroFrom(ordered_days, present_days, idx, confirm)}
    IN  IF hits = {} THEN <<>>
        ELSE <<CHOOSE idx \in hits : \A other \in hits : other <= idx>>

\* The inner loop with its break: the first index that passes the test.
FirstZeroIndex(ordered_days, present_days, confirm) ==
    LET hits == {idx \in 1..(Len(ordered_days) - confirm) :
                    ZeroFrom(ordered_days, present_days, idx, confirm)}
    IN  IF hits = {} THEN <<>>
        ELSE <<CHOOSE idx \in hits : \A other \in hits : idx <= other>>

\* The markers of the alliances keys[n..], in order.
RECURSIVE MarkersFrom(_, _, _, _, _)
MarkersFrom(rows, ordered_days, keys, n, confirm) ==
    IF n > Len(keys) THEN <<>>
    ELSE LET found == IF Len(ordered_days) < confirm + 1 THEN <<>>
                      ELSE FirstZeroIndex(ordered_days,
                                          PresentDays(rows, keys[n]), confirm)
         IN  (IF found = <<>> THEN <<>>
              ELSE <<ZeroMarker(ordered_days[found[1] + 1] * HoursPerDay,
                                keys[n])>>)
             \o MarkersFrom(rows, ordered_days, keys, n + 1, confirm)

\* markers.sort(key=timestamp): a marker goes after those not later.
RECURSIVE InsertMarker(_, _)
InsertMarker(sorted, marker) ==
    IF sorted = <<>> THEN <<marker>>
    ELSE IF parse_dt(marker.timestamp) < parse_dt(sorted[Len(sorted)].timestamp)
    THEN Append(InsertMarker(SubSeq(sorted, 1, Len(sorted) - 1), marker),
                sorted[Len(sorted)])
    ELSE Append(sorted, marker)

RECURSIVE SortMarkers(_, _)
SortMarkers(markers, n) ==
    IF n = 0 THEN <<>>
    ELSE InsertMarker(SortMarkers(markers, n - 1), markers[n])

load_alliance_zero_markers(rows, confirmation_days, start_day, end_day) ==
    LET prepared == prepare_alliance_archives(DOMAIN rows, start_day, end_day)
        ordered_days == SortedInts(prepared.files)
        keys == PresenceKeys(rows, ordered_days, 1, <<>>)
        confirm == IF confirmation_days > 1 THEN confirmation_days ELSE 1
        markers == MarkersFrom(rows, ordered_days, keys, 1, confirm)
    IN  IF Len(ordered_days) < 2
        THEN [markers |-> <<>>, flags |-> prepared.flags]
        ELSE [markers |-> SortMarkers(markers, Len(markers)),
              flags |-> prepared.flags]

\* A call of load_alliance_zero_markers as main makes it.
LoadMarkers ==
    /\ pc = "census"
    /\ LET R == load_alliance_zero_markers(census_rows,
                    cfg.deletion_confirmation_days, StartDay(snapshots),
                    EndDay(snapshots))
       IN  /\ alliance_zero_markers' = R.markers
           /\ nation_flags' = R.flags
    /\ pc' = "census_done"
    /\ UNCHANGED <<bot_records, snapshots, cfg, bot_events, bot_flags,
                   archive_delta_events, grounding_lookup, all_stream, cursor,
                   active, out, flags, next_event_sequence, reconciled,
                   frame_index, query, extra_flags, first_run, census_files,
                   written, score_run, census_rows,
                   frame_index_payload>>

NextMarkers == LoadMarkers

\* The census of the marker specification: files for any of the days
\* 0..MaxCensusDay, each listing up to two of the alliances 1 and 2 in
\* either order or a row without a usable id.
MaxCensusDay == 3

CensusRows == {<<>>, <<1>>, <<2>>, <<1, 2>>, <<2, 1>>, <<0>>}

\* The census directories with files for days out of 0..last_day.
CensusTables(last_day) ==
    UNION {[S -> CensusRows] : S \in SUBSET (0..last_day)}

ConfirmationDays == {0, 1, 2}

InitMarkers ==
    /\ pc = "census"
    /\ census_rows \in CensusTables(MaxCensusDay)
    /\ census_files = DOMAIN census_rows
    /\ frame_index_payload = <<>>
    /\ cfg \in {[Config("off", TRUE, TRUE) EXCEPT
                    !.deletion_confirmation_days = n] : n \in ConfirmationDays}
    /\ bot_records = <<>>
    /\ snapshots = <<>>
    /\ alliance_zero_markers = <<>>
    /\ grounding_lookup = <<>>
    /\ bot_events = <<>>
    /\ bot_flags = <<>>
    /\ archive_delta_events = <<>>
    /\ all_stream = <<>>
    /\ cursor = 1
    /\ active = <<>>
    /\ out = <<>>
    /\ flags = <<>>
    /\ next_event_sequence = 0
    /\ reconciled = <<>>
    /\ frame_index = build_frame_index(<<>>)
    /\ query = <<>>
    /\ extra_flags = <<>>
    /\ first_run = <<>>
    /\ nation_flags = <<>>
    /\ written = {}
    /\ score_run = <<>>

SpecMarkers == InitMarkers /\ [][NextMarkers]_vars

(***************************************************************************)
(* Two runs of main on the same inputs and configuration.                  *)
(***************************************************************************)
\* main: all_flags, without the flags of the census loader.
AllFlags == bot_flags \o flags \o extra_flags

\* What a run hands to the writers.
RunResult ==
    [reconciled |-> reconciled, flags |-> AllFlags,
     frame_index |-> frame_index]

\* A finished run is recorded and main starts again on the same inputs.
Rerun ==
    /\ pc = "done"
    /\ first_run = <<>>
    /\ first_run' = <<RunResult>>
    /\ pc' = "load"
    /\ bot_events' = <<>>
    /\ bot_flags' = <<>>
    /\ archive_delta_events' = <<>>
    /\ grounding_lookup' = <<>>
    /\ all_stream' = <<>>
    /\ cursor' = 1
    /\ active' = <<>>
    /\ out' = <<>>
    /\ flags' = <<>>
    /\ next_event_sequence' = 0
    /\ reconciled' = <<>>
    /\ frame_index' = build_frame_index(<<>>)
    /\ extra_flags' = <<>>
    /\ nation_flags' = <<>>
    /\ written' = {}
    /\ UNCHANGED <<bot_records, snapshots, alliance_zero_markers, cfg, query,
                   census_files, score_run, census_rows,
                   frame_index_payload>>

NextTwin ==
    \/ LoadInputs
    \/ MergeStreams
    \/ ReplayStep
    \/ FinishReconcile
    \/ Top50Filter
    \/ ChurnCollapse
    \/ NoiseFilter
    \/ BuildFrameIndex
    \/ Rerun

\* Records of the two-run specification: an opening that expires at once, a
\* closure within the noise window, a later opening and a refresh without
\* a type.
TwinRecords ==
    {BotRecord("signed", 0, 2, 1, "MDP", <<0>>),
     BotRecord("cancelled", 0, 1, 2, "MDP", <<>>),
     BotRecord("signed", 12, 1, 2, "MDP", <<>>),
     BotRecord("extended", 12, 1, 2, "", <<>>)}

\* Both inferences and both post-passes on, with and without grounding.
TwinConfigs ==
    {[PostConfig(TRUE, 10, 2, TRUE, 24, FALSE) EXCEPT
         !.top50_mode = m,
         !.infer_expiry_cancels = TRUE,
         !.infer_deletion_cancels = TRUE] : m \in {"off", "semi"}}

InitTwin ==
    InitWith(BoundedSeq(TwinRecords, MaxBot), MergeSnapshotLists,
             MergeMarkers, TwinConfigs)

SpecTwin == InitTwin /\ [][NextTwin]_vars

(***************************************************************************)
(* load_archive_snapshots.  A snapshot of the archive file is              *)
(* [date, nodes, edges]: an ISO date, the node ids and the edges           *)
(* <<from, to, title>> in file order.                                      *)
(***************************************************************************)
RawSnapshot(ts, nodes, edges) ==
    [date |-> dt_to_iso(ts), nodes |-> nodes, edges |-> edges]

\* One iteration of the loop over the snapshots of the file.
LoadSnapshot(snap) ==
    Snapshot(parse_dt(snap.date),
             {snap.nodes[i] : i \in 1..Len(snap.nodes)},
             {LET pair == norm_pair(snap.edges[i][1], snap.edges[i][2])
              IN  <<pair[1], pair[2], norm_treaty_type(snap.edges[i][3])>> :
                  i \in 1..Len(snap.edges)})

\* snapshots.sort(key=lambda s: s.timestamp): stable insertion of s.
InsertSnapshot(sorted, s) ==
    LET k == Cardinality({i \in 1..Len(sorted) :
                             sorted[i].timestamp <= s.timestamp})
    IN  SubSeq(sorted, 1, k) \o <<s>> \o SubSeq(sorted, k + 1, Len(sorted))

RECURSIVE LoadSnapshotsFrom(_, _)
LoadSnapshotsFrom(raw, n) ==
    IF n = 0 THEN <<>>
    ELSE InsertSnapshot(LoadSnapshotsFrom(raw, n - 1), LoadSnapshot(raw[n]))

load_archive_snapshots(raw) == LoadSnapshotsFrom(raw, Len(raw))

\* Records of the pair specification: the same relationships named from
\* either side, an opening that expires at once and an upgrade.
PairRecords ==
    {BotRecord("signed", 0, 2, 1, "MDP", <<0>>),
     BotRecord("signed", 0, 3, 2, "NAP", <<>>),
     BotRecord("cancelled", 12, 1, 2, "MDP", <<>>),
     [BotRecord("upgraded", 12, 2, 1, "ODP", <<>>) EXCEPT
         !.treaty_type = <<"ODP", "MDP">>]}

\* Archive files of the pair specification: edges named from the larger
\* side, the same edge named from both sides, and snapshots out of order.
PairArchives ==
    {<<>>,
     <<RawSnapshot(0, <<1, 2>>, <<>>),
       RawSnapshot(12, <<1, 2>>, <<<<2, 1, "MDP">>>>)>>,
     <<RawSnapshot(12, <<1, 3>>, <<>>),
       RawSnapshot(0, <<1, 3>>, <<<<3, 1, "ODP">>, <<1, 3, "ODP">>>>)>>}

InitPair ==
    InitWith(BoundedSeq(PairRecords, MaxBot),
             {load_archive_snapshots(raw) : raw \in PairArchives},
             MergeMarkers, {Config("off", TRUE, TRUE)})

SpecPair == InitPair /\ [][Next]_vars

(***************************************************************************)
(* Properties.                                                             *)
(***************************************************************************)
\* reconcile_events has returned.
Returned == pc \in {"filter", "churn", "noise", "index", "done"}

\* Largest record index load_bot_events assigns in the model.
MaxRecordIndex == MalformedLead + MaxBot + 1

\* C1: bot records that share a timestamp keep their input order: the
\* record of source_ref bot:i precedes the record of bot:j in the returned
\* log, and has the smaller event_sequence, whenever i < j.
C1_SameTimestampInputOrder ==
    Returned =>
        \A a, b \in 1..Len(out) :
            (/\ out[a].source = "bot"
             /\ out[b].source = "bot"
             /\ out[a].timestamp = out[b].timestamp
             /\ \E i, j \in 0..MaxRecordIndex :
                    /\ i < j
                    /\ out[a].source_ref = BotRef(i)
                    /\ out[b].source_ref = BotRef(j))
            => (a < b /\ out[a].event_sequence < out[b].event_sequence)

\* C2: grounded_count answers membership in the latest snapshot at or
\* before `when`, and FALSE when there is none (an empty lookup, or `when`
\* before the first snapshot); a query at a snapshot's own timestamp uses
\* that snapshot.
C2_GroundedCountLatestSnapshot ==
    \A n \in 1..Len(query) :
        LET q == query[n]
            atOrBefore == {i \in 1..Len(grounding_lookup) :
                              grounding_lookup[i][1] <= q.when}
            latest == CHOOSE i \in atOrBefore : \A k \in atOrBefore : k <= i
        IN  /\ q.result = (atOrBefore # {}
                           /\ q.aid \in grounding_lookup[latest][2])
            /\ (grounding_lookup = <<>> => q.result = FALSE)
            /\ (grounding_lookup # <<>> /\ q.when < grounding_lookup[1][1]
                    => q.result = FALSE)

\* A query at the timestamp of the second of two snapshots, answered TRUE
\* for an alliance the first snapshot does not hold.
C2_Witness ==
    /\ query # <<>>
    /\ Len(grounding_lookup) = 2
    /\ grounding_lookup[1][1] < grounding_lookup[2][1]
    /\ query[1].when = grounding_lookup[2][1]
    /\ query[1].aid \notin grounding_lookup[1][2]
    /\ query[1].result = TRUE

\* The rank the merge order gives a stream item.
MergeRank(item) ==
    IF item.action = "alliance_zero_members" THEN 2
    ELSE IF item.source = "archive_delta" THEN 1
    ELSE 0

\* The rank of the stream item an emitted record comes from; expiry-inferred
\* records come from no item.
RecordRank(r) ==
    IF r.source = "deletion_inferred" THEN 2
    ELSE IF r.source = "archive_delta" THEN 1
    ELSE 0

\* C7: among merged items of one timestamp, bot events come before archive
\* deltas and archive deltas before deletion markers, in the replay order
\* and in the event_sequence of the records they emit.
C7_MergePriority ==
    /\ \A a, b \in 1..Len(all_stream) :
           (/\ all_stream[a].timestamp = all_stream[b].timestamp
            /\ MergeRank(all_stream[a]) < MergeRank(all_stream[b]))
           => a < b
    /\ \A a, b \in 1..Len(out) :
           (/\ out[a].source # "expiry_inferred"
            /\ out[b].source # "expiry_inferred"
            /\ out[a].timestamp = out[b].timestamp
            /\ RecordRank(out[a]) < RecordRank(out[b]))
           => out[a].event_sequence < out[b].event_sequence

\* A replayed stream that holds a bot event, an archive delta and a deletion
\* marker of one timestamp, each of which emitted a record.
C7_Witness ==
    /\ Returned
    /\ \E a, b, c \in 1..Len(all_stream) :
           /\ all_stream[a].timestamp = all_stream[b].timestamp
           /\ all_stream[b].timestamp = all_stream[c].timestamp
           /\ MergeRank(all_stream[a]) = 0
           /\ MergeRank(all_stream[b]) = 1
           /\ MergeRank(all_stream[c]) = 2
    /\ \E a, b, c \in 1..Len(out) :
           /\ out[a].timestamp = out[b].timestamp
           /\ out[b].timestamp = out[c].timestamp
           /\ out[a].source = "bot"
           /\ out[b].source = "archive_delta"
           /\ out[c].source = "deletion_inferred"

KeyOf(r) == <<r.pair_min_id, r.pair_max_id, r.treaty_type>>

\* The keys that have a TreatyState.
OpenKeys(act) ==
    LET items == ActiveItems(act)
    IN  {<<items[i].pair[1], items[i].pair[2], items[i].state.treaty_type>> :
            i \in 1..Len(items)}

LogKeys(log) == {KeyOf(log[i]) : i \in 1..Len(log)}

\* The actions that bear on whether a key is open.
OpeningActions == {"signed", "extended"}

ClosingActions == {"cancelled", "expired", "ended", "inferred_cancelled"}

\* The last state-relevant record of key k in the log is an opening one.
LastRelevantOpens(log, k) ==
    LET relevant == {i \in 1..Len(log) :
                        /\ KeyOf(log[i]) = k
                        /\ log[i].action \in OpeningActions \cup ClosingActions}
    IN  /\ relevant # {}
        /\ \E i \in relevant :
               /\ \A j \in relevant : j <= i
               /\ log[i].action \in OpeningActions

\* C3: when reconcile_events returns, a key has a TreatyState iff the last
\* signed, extended, terminal or inferred_cancelled record of that key in the
\* returned log is a signed or extended one.
C3_StateConsistency ==
    Returned =>
        \A k \in LogKeys(out) \cup OpenKeys(active) :
            (k \in OpenKeys(active)) <=> LastRelevantOpens(out, k)

\* A returned log with a key that inference closed, a later record reopened
\* and that is open at the end, beside a key that ended closed.
C3_Witness ==
    /\ Returned
    /\ \E k \in OpenKeys(active) :
           \E i \in 1..Len(out) :
               KeyOf(out[i]) = k /\ out[i].action = "inferred_cancelled"
    /\ LogKeys(out) \ OpenKeys(active) # {}

\* Record i of the log opens or refreshes its key with n >= 0 turns left and
\* no later record of the key is a signed, extended or terminal event or a
\* deletion closure.
LastOpeningWithTurns(log, i) ==
    /\ log[i].action \in OpeningActions
    /\ log[i].time_remaining_turns # <<>>
    /\ log[i].time_remaining_turns[1] >= 0
    /\ \A j \in (i + 1)..Len(log) :
           KeyOf(log[j]) = KeyOf(log[i]) =>
               /\ log[j].action \notin
                      {"signed", "extended", "cancelled", "expired", "ended"}
               /\ log[j].source # "deletion_inferred"

\* The expiry closures the claim expects for the opening record i.
ExpiryClosures(log, i) ==
    {j \in 1..Len(log) :
        /\ KeyOf(log[j]) = KeyOf(log[i])
        /\ log[j].action = "inferred_cancelled"
        /\ parse_dt(log[j].timestamp) =
               parse_dt(log[i].timestamp) + 2 * log[i].time_remaining_turns[1]
        /\ log[j].source = "expiry_inferred"
        /\ log[j].confidence = "low"}

\* C5 as stated: with expiry inference, the log holds exactly one
\* inferred_cancelled record of the key at T + 2n hours (source
\* expiry_inferred, confidence low) for a relationship opened or last
\* refreshed at T with n >= 0 turns and not closed otherwise.
C5_ExactlyOneExpiryRecord ==
    (Returned /\ cfg.infer_expiry_cancels) =>
        \A i \in 1..Len(out) :
            LastOpeningWithTurns(out, i) =>
                Cardinality(ExpiryClosures(out, i)) = 1

\* C5 amended: exactly one such record follows the opening record in the
\* returned log.
C5_ExactlyOneExpiryRecordAfter ==
    (Returned /\ cfg.infer_expiry_cancels) =>
        \A i \in 1..Len(out) :
            LastOpeningWithTurns(out, i) =>
                Cardinality({j \in ExpiryClosures(out, i) : j > i}) = 1

\* A relationship opened with turns left by the last item of the stream and
\* closed, later than every item, by the final flush.
C5_Witness ==
    /\ Returned
    /\ cfg.infer_expiry_cancels
    /\ \E i \in 1..Len(out) :
           /\ LastOpeningWithTurns(out, i)
           /\ out[i].time_remaining_turns[1] > 0
           /\ out[i].source_ref = all_stream[Len(all_stream)].source_ref
           /\ \E j \in ExpiryClosures(out, i) :
                  \A n \in 1..Len(all_stream) :
                      parse_dt(all_stream[n].timestamp)
                          < parse_dt(out[j].timestamp)

\* C6: the returned log is chronological: timestamps do not decrease and
\* records of one timestamp are in ascending event_sequence.
C6_ChronologicalOrder ==
    Returned =>
        \A a, b \in 1..Len(out) :
            a < b =>
                \/ parse_dt(out[a].timestamp) < parse_dt(out[b].timestamp)
                \/ /\ parse_dt(out[a].timestamp) = parse_dt(out[b].timestamp)
                   /\ out[a].event_sequence < out[b].event_sequence

\* An expiry-inferred record that was emitted after a record of a later
\* timestamp and is returned before it.
C6_Witness ==
    /\ Returned
    /\ \E a, b \in 1..Len(out) :
           /\ a < b
           /\ out[a].source = "expiry_inferred"
           /\ out[a].event_sequence > out[b].event_sequence
           /\ parse_dt(out[a].timestamp) < parse_dt(out[b].timestamp)

\* The tracker after the state updates of the first n records of a log.
RECURSIVE TrackerAfter(_, _)
TrackerAfter(log, n) ==
    IF n = 0 THEN <<>>
    ELSE ApplyAction(TrackerAfter(log, n - 1), normalize_action(log[n].action),
                     <<log[n].pair_min_id, log[n].pair_max_id>>,
                     log[n].treaty_type, parse_dt(log[n].timestamp), log[n])

Elements(seq) == {seq[i] : i \in 1..Len(seq)}

\* The edge set after the deltas of days 1..d are applied to the empty set.
RECURSIVE EdgesAfterDeltas(_, _)
EdgesAfterDeltas(fi, d) ==
    IF d = 0 THEN {}
    ELSE (EdgesAfterDeltas(fi, d - 1)
              \cup Elements(fi.active_edge_delta_by_day[d].add_edge_ids))
         \ Elements(fi.active_edge_delta_by_day[d].remove_edge_ids)

\* The key of edge id e; edge_dict[e] is [event_index, min, max, type].
EdgeKey(fi, e) ==
    <<fi.edge_dict[e + 1][2], fi.edge_dict[e + 1][3], fi.edge_dict[e + 1][4]>>

\* The edges whose relationship the tracker holds open after the log is
\* truncated at the end of day d: for each open key, its latest edge among
\* the first n records.
OpenEdgesAtDay(fi, log, d) ==
    LET n == fi.event_end_offset_by_day[d]
        open == OpenKeys(TrackerAfter(log, n))
        ids == {e \in 0..(Len(fi.edge_dict) - 1) : fi.edge_dict[e + 1][1] < n}
    IN  {e \in ids :
            /\ EdgeKey(fi, e) \in open
            /\ \A f \in ids : EdgeKey(fi, f) = EdgeKey(fi, e) => f <= e}

\* C4: for every day d, the deltas up to and including d, applied to the
\* empty set, give exactly the edges whose relationship is open in the
\* tracker after the replay of the log truncated at the end of day d.
C4_FrameIndexReconstruction ==
    pc = "done" =>
        \A d \in 1..Len(frame_index.day_keys) :
            EdgesAfterDeltas(frame_index, d)
                = OpenEdgesAtDay(frame_index, reconciled, d)

\* The item the next replay step processes.
Item == all_stream[cursor]

\* A replay step is about to process an item.
AtItem == pc = "replay" /\ cursor <= Len(all_stream)

\* The replay state once the step's expiry flush has run.
Flushed ==
    flush_expired(ReplayState, parse_dt(Item.timestamp), grounding_lookup, cfg)

\* The treaty types open on the item's pair at the step.
OpenTypes ==
    {t \in Elements(TypeOrder) :
        HasState(Flushed.active, <<Item.pair_min_id, Item.pair_max_id>>, t)}

\* A treaty event whose type is empty or UNKNOWN.
MissingType ==
    /\ AtItem
    /\ Item.action # "alliance_zero_members"
    /\ Item.treaty_type \in {"", "UNKNOWN"}

\* Inference resolves the item: one open type and an action that may adopt.
Resolvable ==
    /\ Cardinality(OpenTypes) = 1
    /\ Item.action \in {"extended", "cancelled", "expired", "ended"}

\* The flags the step adds.
NewFlags == SubSeq(flags', Len(Flushed.flags) + 1, Len(flags'))

\* The records the step emits after those of its expiry flush.
NewRecords == SubSeq(out', Len(Flushed.out) + 1, Len(out'))

InferenceFlags ==
    SelectSeq(NewFlags, LAMBDA f : f.flag = "inferred_missing_treaty_type")

\* C8: an extended, cancelled, expired or ended item of empty or UNKNOWN type
\* on a pair with exactly one open type is emitted with that type, acts on
\* that type's state and adds exactly one info flag
\* inferred_missing_treaty_type; a signed item, or a pair with no or several
\* open types, adopts no type.
C8_MissingTypeInference ==
    [][MissingType =>
        LET pair == <<Item.pair_min_id, Item.pair_max_id>>
            t == CHOOSE u \in OpenTypes : TRUE
        IN  IF Resolvable
            THEN /\ Len(NewRecords) = 1
                 /\ NewRecords[1].treaty_type = t
                 /\ NewRecords[1].action = Item.action
                 /\ NewRecords[1].source_ref = Item.source_ref
                 /\ IF Item.action = "extended"
                    THEN /\ HasState(active', pair, t)
                         /\ GetState(active', pair, t).last_event_id
                                = Item.source_ref
                         /\ GetState(active', pair, t).opened_at
                                = GetState(Flushed.active, pair, t).opened_at
                    ELSE ~HasState(active', pair, t)
                 /\ Len(InferenceFlags) = 1
                 /\ InferenceFlags[1].severity = "info"
                 /\ InferenceFlags[1].inferred_type = t
            ELSE /\ InferenceFlags = <<>>
                 /\ \A i \in 1..Len(NewRecords) :
                        NewRecords[i].treaty_type = Item.treaty_type]_vars

\* The last replayed item is an extended event of empty type that was
\* emitted with the type NAP and flagged as inferred.
C8_Witness ==
    /\ pc = "replay"
    /\ cursor > 1
    /\ all_stream[cursor - 1].action = "extended"
    /\ all_stream[cursor - 1].treaty_type = ""
    /\ out # <<>>
    /\ out[Len(out)].source_ref = all_stream[cursor - 1].source_ref
    /\ out[Len(out)].treaty_type = "NAP"
    /\ flags # <<>>
    /\ flags[Len(flags)].flag = "inferred_missing_treaty_type"

\* The step drops the item: no record, no event_sequence, the tracker as
\* the flush left it, and warning flags.
DroppedWithWarning ==
    /\ NewRecords = <<>>
    /\ next_event_sequence' = Flushed.seq
    /\ active' = Flushed.active
    /\ NewFlags # <<>>
    /\ \A i \in 1..Len(NewFlags) : NewFlags[i].severity = "warning"
    /\ cursor' = cursor + 1

\* C9 as stated: an item of empty or UNKNOWN type that inference does not
\* resolve is dropped with a warning flag and the run continues.
C9_UnresolvedTypeDropped ==
    [][(MissingType /\ ~Resolvable) => DroppedWithWarning]_vars

\* C9 amended: an unresolved item of empty type is dropped with the warning
\* empty_treaty_type_after_inference; an unresolved item of UNKNOWN type is
\* emitted with the type UNKNOWN, takes an event_sequence, acts on the
\* tracker and adds the warning unknown_treaty_type_event.
C9_UnresolvedEmptyDroppedUnknownKept ==
    [][(MissingType /\ ~Resolvable) =>
        IF Item.treaty_type = ""
        THEN /\ DroppedWithWarning
             /\ NewFlags[Len(NewFlags)].flag
                    = "empty_treaty_type_after_inference"
        ELSE /\ Len(NewRecords) = 1
             /\ NewRecords[1].treaty_type = "UNKNOWN"
             /\ NewRecords[1].source_ref = Item.source_ref
             /\ NewRecords[1].event_sequence = Flushed.seq
             /\ next_event_sequence' = Flushed.seq + 1
             /\ (Item.action \in {"signed", "extended"}
                    <=> HasState(active',
                                 <<Item.pair_min_id, Item.pair_max_id>>,
                                 "UNKNOWN"))
             /\ NewFlags # <<>>
             /\ NewFlags[Len(NewFlags)].flag = "unknown_treaty_type_event"
             /\ NewFlags[Len(NewFlags)].severity = "warning"
             /\ cursor' = cursor + 1]_vars

\* The last replayed item is a signed event of empty type that met one open
\* type and was dropped with the warning, and an item follows it.
C9_Witness ==
    /\ pc = "replay"
    /\ 1 < cursor
    /\ cursor <= Len(all_stream)
    /\ all_stream[cursor - 1].action = "signed"
    /\ all_stream[cursor - 1].treaty_type = ""
    /\ Len(ActiveItems(active)) = 1
    /\ \A i \in 1..Len(out) :
           out[i].source_ref # all_stream[cursor - 1].source_ref
    /\ flags # <<>>
    /\ flags[Len(flags)].flag = "empty_treaty_type_after_inference"
    /\ flags[Len(flags)].event_ref = all_stream[cursor - 1].source_ref

\* A deletion marker is about to be replayed with deletion inference on.
AtMarker ==
    /\ AtItem
    /\ Item.action = "alliance_zero_members"
    /\ cfg.infer_deletion_cancels

\* The open relationship has the marker's entity as an endpoint.
Touches(item) == Item.alliance_id \in {item.pair[1], item.pair[2]}

\* The relationship is closed by the step's expiry flush, before the marker.
ExpiresFirst(item) ==
    cfg.infer_expiry_cancels /\ IsDue(item, parse_dt(Item.timestamp))

\* The records the step emits for the marker.
DeletionRecords ==
    {i \in (Len(out) + 1)..Len(out') : out'[i].source = "deletion_inferred"}

\* C10: after a deletion marker of entity X is replayed with deletion
\* inference on, no open relationship touches X, each relationship the
\* marker closed has exactly one inferred_cancelled record (source
\* deletion_inferred, confidence medium, the marker's timestamp), and the
\* open relationships that do not touch X are unchanged.
C10_DeletionInference ==
    [][AtMarker =>
        LET before == Elements(ActiveItems(active))
            after == Elements(ActiveItems(active'))
            closed == {item \in before :
                          Touches(item) /\ ~ExpiresFirst(item)}
        IN  /\ \A item \in after : ~Touches(item)
            /\ after = {item \in before :
                           ~Touches(item) /\ ~ExpiresFirst(item)}
            /\ \A item \in closed :
                   Cardinality({i \in DeletionRecords :
                       /\ out'[i].pair_min_id = item.pair[1]
                       /\ out'[i].pair_max_id = item.pair[2]
                       /\ out'[i].treaty_type = item.state.treaty_type
                       /\ out'[i].action = "inferred_cancelled"
                       /\ out'[i].confidence = "medium"
                       /\ out'[i].timestamp = Item.timestamp}) = 1
            /\ Cardinality(DeletionRecords) = Cardinality(closed)
            /\ SubSeq(out', 1, Len(out)) = out]_vars

\* The last replayed item is a marker that closed a relationship while
\* another relationship, not touching the entity, stays open.
C10_Witness ==
    /\ pc = "replay"
    /\ cursor > 1
    /\ all_stream[cursor - 1].action = "alliance_zero_members"
    /\ out # <<>>
    /\ out[Len(out)].source = "deletion_inferred"
    /\ out[Len(out)].timestamp = all_stream[cursor - 1].timestamp
    /\ active # <<>>

C12_PairNormalization ==
    Returned =>
        \A i \in 1..Len(reconciled) :
            /\ reconciled[i].pair_min_id <= reconciled[i].pair_max_id
            /\ {reconciled[i].from_alliance_id, reconciled[i].to_alliance_id}
                   = {reconciled[i].pair_min_id, reconciled[i].pair_max_id}

\* A returned log with a bot record given from the larger id, the two
\* halves of an upgrade, an archive delta and an inferred closure.
C12_Witness ==
    /\ Returned
    /\ \E i, j, k, a, x \in 1..Len(reconciled) :
           /\ reconciled[i].source = "bot"
           /\ reconciled[i].from_alliance_id > reconciled[i].to_alliance_id
           /\ j < k
           /\ reconciled[j].source = "bot"
           /\ reconciled[k].source = "bot"
           /\ reconciled[j].source_ref = reconciled[k].source_ref
           /\ reconciled[a].source = "archive_delta"
           /\ reconciled[x].source \in {"expiry_inferred", "deletion_inferred"}

\* The days (positions in day_keys) whose add set holds edge e.
AddDays(fi, e) ==
    {d \in 1..Len(fi.active_edge_delta_by_day) :
        e \in Elements(fi.active_edge_delta_by_day[d].add_edge_ids)}

\* The days whose remove set holds edge e.
RemoveDays(fi, e) ==
    {d \in 1..Len(fi.active_edge_delta_by_day) :
        e \in Elements(fi.active_edge_delta_by_day[d].remove_edge_ids)}

\* Edge e's relationship is signed again or closed by a later record of
\* the day of the record that added e.
ResolvedSameDay(fi, log, e) ==
    LET i == fi.edge_dict[e + 1][1] + 1
    IN  \E j \in (i + 1)..Len(log) :
            /\ <<log[j].pair_min_id, log[j].pair_max_id, log[j].treaty_type>>
                   = EdgeKey(fi, e)
            /\ log[j].timestamp[1] = log[i].timestamp[1]
            /\ log[j].action \in {"signed"} \cup TERMINAL_ACTIONS

\* C13: in the frame index of a chronologically ordered log every edge id
\* is in the add set of exactly one day, or of none when it is resolved on
\* the day it is added; it is in the remove set of at most one day, never
\* in both sets of one day, and in a remove set only on a day after the
\* day whose add set holds it.
C13_EdgeAddedOnceRemovedLater ==
    pc = "done" =>
        \A e \in 0..(Len(frame_index.edge_dict) - 1) :
            LET adds == AddDays(frame_index, e)
                removes == RemoveDays(frame_index, e)
            IN  /\ Cardinality(adds)
                       = IF ResolvedSameDay(frame_index, reconciled, e)
                         THEN 0 ELSE 1
                /\ Cardinality(removes) <= 1
                /\ adds \cap removes = {}
                /\ \A r \in removes : \E a \in adds : a < r

\* A frame index with an edge added on one day and removed on a later
\* day, and an edge added and resolved within one day.
C13_Witness ==
    /\ pc = "done"
    /\ \E e, f \in 0..(Len(frame_index.edge_dict) - 1) :
           /\ AddDays(frame_index, e) # {}
           /\ RemoveDays(frame_index, e) # {}
           /\ ResolvedSameDay(frame_index, reconciled, f)
           /\ AddDays(frame_index, f) = {}

\* C14: day_keys is strictly ascending; the offsets and the deltas have one
\* entry per day key; the offset of a day is the number of records dated on
\* or before it; the offsets increase strictly and the last one is the
\* number of records.
C14_DayKeysAndOffsets ==
    pc = "done" =>
        LET days == frame_index.day_keys
            offsets == frame_index.event_end_offset_by_day
            n == Len(days)
        IN  /\ \A i, j \in 1..n : i < j => days[i] < days[j]
            /\ Len(offsets) = n
            /\ Len(frame_index.active_edge_delta_by_day) = n
            /\ \A i \in 1..n :
                   offsets[i]
                       = Cardinality({k \in 1..Len(reconciled) :
                                         reconciled[k].timestamp[1] <= days[i]})
            /\ \A i, j \in 1..n : i < j => offsets[i] < offsets[j]
            /\ n > 0 => offsets[n] = Len(reconciled)

\* A frame index of three days, the first with two records.
C14_Witness ==
    /\ pc = "done"
    /\ Len(frame_index.day_keys) = 3
    /\ frame_index.event_end_offset_by_day[1] = 2
    /\ Len(reconciled) = MaxFrameLog

\* Positions i < j hold the same (pair, type) and no position between them
\* does: they are adjacent in their group.
AdjacentInGroup(log, i, j) ==
    /\ i < j
    /\ EventKey(log[i]) = EventKey(log[j])
    /\ \A k \in (i + 1)..(j - 1) : EventKey(log[k]) # EventKey(log[i])

\* The adjacent positions whose records are a bot-sourced signed and
\* cancelled, the later at most w hours after the earlier.
NoiseMatches(log, w) ==
    {p \in (1..Len(log)) \X (1..Len(log)) :
        /\ AdjacentInGroup(log, p[1], p[2])
        /\ {log[p[1]].action, log[p[2]].action} = {"signed", "cancelled"}
        /\ log[p[1]].source = "bot"
        /\ log[p[2]].source = "bot"
        /\ parse_dt(log[p[2]].timestamp) - parse_dt(log[p[1]].timestamp)
               \in 0..w}

\* The positions of the records of the matches.
NoiseHit(log, w) ==
    {p[1] : p \in NoiseMatches(log, w)} \cup {p[2] : p \in NoiseMatches(log, w)}

\* The noise filter, asked to keep what it marks, turns log into marked and
\* adds added to the flags: exactly the records of the matches for window w
\* are marked, with the reason that names the configured window n, and
\* there is one flag per match.
NoiseMarkingRule(log, marked, added, w, n) ==
    /\ Len(marked) = Len(log)
    /\ \A i \in 1..Len(log) :
           marked[i] = IF i \in NoiseHit(log, w)
                       THEN [log[i] EXCEPT !.noise_filtered = TRUE,
                                           !.noise_reason = NoiseReason(n)]
                       ELSE log[i]
    /\ Len(added) = Cardinality(NoiseMatches(log, w))
    /\ \A k \in 1..Len(added) : added[k].flag = "noise_pair_filtered"
    /\ \A p \in NoiseMatches(log, w) :
           Cardinality({k \in 1..Len(added) :
               /\ added[k].prev_event_id = log[p[1]].event_id
               /\ added[k].curr_event_id = log[p[2]].event_id}) = 1

\* The flags a step appends to extra_flags.
AddedFlags == SubSeq(extra_flags', Len(extra_flags) + 1, Len(extra_flags'))

\* C15 as stated: the window of the marking rule is the configured
\* windowHours.
C15_NoiseMarkingConfiguredWindow ==
    [][(pc = "noise" /\ cfg.filter_noise /\ cfg.keep_noise) =>
          NoiseMarkingRule(reconciled, reconciled', AddedFlags,
                           cfg.noise_window_hours, cfg.noise_window_hours)]_vars

\* C15: the noise filter marks a record, with the reason
\* opposite_action_within_<N>h, exactly when it is adjacent in its (pair,
\* type) group to a record such that the two are a signed and a cancelled,
\* both from the bot, the later at most max(1, windowHours) hours after
\* the earlier; it marks no other record and adds one noise_pair_filtered
\* flag per matched pair.
C15_NoiseMarkingClampedWindow ==
    [][(pc = "noise" /\ cfg.filter_noise /\ cfg.keep_noise) =>
          NoiseMarkingRule(reconciled, reconciled', AddedFlags,
                           IF cfg.noise_window_hours > 1
                           THEN cfg.noise_window_hours ELSE 1,
                           cfg.noise_window_hours)]_vars

\* The filter has run with a configured window of 0 hours, keeping what it
\* marks: two records one hour apart are marked, another is not, and a
\* flag was added.
C15_Witness ==
    /\ pc = "index"
    /\ cfg.filter_noise
    /\ cfg.keep_noise
    /\ cfg.noise_window_hours = 0
    /\ extra_flags # <<>>
    /\ \E i, j, k \in 1..Len(reconciled) :
           /\ reconciled[i].noise_filtered
           /\ reconciled[j].noise_filtered
           /\ parse_dt(reconciled[j].timestamp)
                  = parse_dt(reconciled[i].timestamp) + 1
           /\ ~reconciled[k].noise_filtered

\* The records of log at the positions of S, in order.
RecordsAt(log, S) == [k \in 1..Cardinality(S) |-> log[SortedInts(S)[k]]]

\* C16: unless keep-noise is set the log the noise filter returns has no
\* record marked noise_filtered and holds every record it did not mark, in
\* the order of the input; with keep-noise it returns every input record,
\* marked or not.
C16_NoiseFilterOutput ==
    [][(pc = "noise" /\ cfg.filter_noise) =>
          LET w == IF cfg.noise_window_hours > 1
                   THEN cfg.noise_window_hours ELSE 1
              hit == NoiseHit(reconciled, w)
          IN  IF cfg.keep_noise
              THEN /\ Len(reconciled') = Len(reconciled)
                   /\ \A i \in 1..Len(reconciled) :
                          /\ reconciled'[i].event_id = reconciled[i].event_id
                          /\ reconciled'[i].noise_filtered <=> i \in hit
              ELSE /\ \A k \in 1..Len(reconciled') :
                          ~reconciled'[k].noise_filtered
                   /\ reconciled'
                          = RecordsAt(reconciled,
                                      (1..Len(reconciled)) \ hit)]_vars

\* The filter has run without keep-noise and returned one record, having
\* removed a matched pair.
C16_Witness ==
    /\ pc = "index"
    /\ cfg.filter_noise
    /\ ~cfg.keep_noise
    /\ Len(reconciled) = 1
    /\ Len(extra_flags) = 1
    /\ reconciled[1].event_sequence = 1

\* The positions of cluster cl whose record has the given action.
WithActionIn(log, cl, action) ==
    {i \in Elements(cl) : log[i].action = action}

\* signed count - cancelled count of cluster cl.
NetOf(log, cl) ==
    Cardinality(WithActionIn(log, cl, "signed"))
        - Cardinality(WithActionIn(log, cl, "cancelled"))

\* Cluster cl meets every condition for collapsing: it has at least minimum
\* records, both actions, a timestamp that occurs four times, at most
\* max(4, size / 3) distinct timestamps and a net of at most two.
QualifyingCluster(log, cl, minimum) ==
    LET stamps == {log[i].timestamp : i \in Elements(cl)}
        distinct == Cardinality(stamps)
    IN  /\ Len(cl) >= minimum
        /\ WithActionIn(log, cl, "signed") # {}
        /\ WithActionIn(log, cl, "cancelled") # {}
        /\ \E t \in stamps :
               Cardinality({i \in Elements(cl) : log[i].timestamp = t}) >= 4
        /\ distinct <= 4 \/ 3 * distinct <= Len(cl)
        /\ Abs(NetOf(log, cl)) <= 2

\* The last n of the positions S.
LastPositions(S, n) == {i \in S : Cardinality({j \in S : j > i}) < n}

\* The positions of log whose record is in the log after the step.
Surviving(log, after) ==
    {i \in 1..Len(log) :
        \E k \in 1..Len(after) : after[k].event_id = log[i].event_id}

\* Flag f describes cluster cl.
FlagOfCluster(log, cl, f) ==
    /\ f.flag = "churn_cluster_collapsed"
    /\ f.pair = <<log[cl[1]].pair_min_id, log[cl[1]].pair_max_id>>
    /\ f.treaty_type = log[cl[1]].treaty_type
    /\ f.window_start = log[cl[1]].timestamp
    /\ f.window_end = log[cl[Len(cl)]].timestamp

\* The clusters the collapser examines in the log it is about to receive,
\* and the minimum size it applies.
ClustersNow ==
    ChurnClusters(reconciled, cfg.churn_window_minutes, cfg.churn_min_events)

MinimumNow == IF cfg.churn_min_events > 2 THEN cfg.churn_min_events ELSE 2

\* C17: of every cluster that qualifies the churn collapser keeps exactly
\* |net| records, the last net signed ones if net > 0, the last |net|
\* cancelled ones if net < 0 and none if net = 0; it removes the other
\* size - |net| and adds exactly one churn_cluster_collapsed flag for it.
C17_ChurnCollapseResult ==
    [][(pc = "churn" /\ cfg.collapse_churn) =>
          \A n \in 1..Len(ClustersNow) :
              LET cl == ClustersNow[n]
                  net == NetOf(reconciled, cl)
                  kept == Elements(cl) \cap Surviving(reconciled, reconciled')
              IN  QualifyingCluster(reconciled, cl, MinimumNow) =>
                      /\ kept = IF net > 0
                                THEN LastPositions(
                                         WithActionIn(reconciled, cl, "signed"),
                                         net)
                                ELSE LastPositions(
                                         WithActionIn(reconciled, cl,
                                                      "cancelled"),
                                         0 - net)
                      /\ Cardinality(kept) = Abs(net)
                      /\ Cardinality(Elements(cl) \ kept) = Len(cl) - Abs(net)
                      /\ Cardinality({k \in 1..Len(AddedFlags) :
                             FlagOfCluster(reconciled, cl, AddedFlags[k])})
                             = 1]_vars

\* The collapser has collapsed a cluster of six records with a net of two
\* signed: two signed records of the relationship remain, after a
\* cancelled one was removed from between the signed ones.
C17_Witness ==
    /\ pc = "noise"
    /\ cfg.collapse_churn
    /\ Len(extra_flags) = 1
    /\ extra_flags[1].flag = "churn_cluster_collapsed"
    /\ extra_flags[1].cluster_events = 6
    /\ extra_flags[1].net_action_balance = 2
    /\ \E i, j \in 1..Len(reconciled) :
           /\ i < j
           /\ reconciled[i].source = "bot"
           /\ reconciled[j].source = "bot"
           /\ reconciled[i].action = "signed"
           /\ reconciled[j].action = "signed"
           /\ reconciled[j].event_sequence > reconciled[i].event_sequence + 1

\* C18: the churn collapser removes a record only if it is a bot-sourced
\* signed or cancelled record of a cluster that meets every qualifying
\* condition; every other record is returned unchanged and in the order of
\* the input, and no flag is added for a cluster that fails a condition.
C18_ChurnCollapseFrame ==
    [][(pc = "churn" /\ cfg.collapse_churn) =>
          LET qualifying ==
                  {n \in 1..Len(ClustersNow) :
                      QualifyingCluster(reconciled, ClustersNow[n],
                                        MinimumNow)}
              removable == UNION {Elements(ClustersNow[n]) : n \in qualifying}
              gone == (1..Len(reconciled))
                          \ Surviving(reconciled, reconciled')
          IN  /\ gone \subseteq removable
              /\ \A i \in gone :
                     /\ reconciled[i].source = "bot"
                     /\ reconciled[i].action \in {"signed", "cancelled"}
              /\ reconciled'
                     = RecordsAt(reconciled, (1..Len(reconciled)) \ gone)
              /\ \A k \in 1..Len(AddedFlags) :
                     \E n \in qualifying :
                         FlagOfCluster(reconciled, ClustersNow[n],
                                       AddedFlags[k])]_vars

\* The collapser has run on a log with records of other sources, actions
\* and pairs and a cluster of five records at one instant whose net is
\* three: nothing was removed and no flag was added.
C18_Witness ==
    /\ pc = "noise"
    /\ cfg.collapse_churn
    /\ cfg.churn_min_events = 2
    /\ extra_flags = <<>>
    /\ Cardinality({i \in 1..Len(reconciled) :
           /\ reconciled[i].source = "bot"
           /\ reconciled[i].action = "signed"
           /\ reconciled[i].pair_max_id = 2
           /\ parse_dt(reconciled[i].timestamp) = 0}) = 4
    /\ Cardinality({i \in 1..Len(reconciled) :
           /\ reconciled[i].source = "bot"
           /\ reconciled[i].action = "cancelled"
           /\ parse_dt(reconciled[i].timestamp) = 0}) = 1
    /\ \E i, j, k \in 1..Len(reconciled) :
           /\ reconciled[i].source = "archive_delta"
           /\ reconciled[j].action = "extended"
           /\ reconciled[k].pair_max_id = 3

\* The log the noise filter makes of log under the configuration.
NoiseOf(log) ==
    apply_noise_filter(log, cfg.noise_window_hours, cfg.keep_noise).events

\* The log the churn collapser makes of log under the configuration.
ChurnOf(log) ==
    apply_churn_collapse(log, cfg.churn_window_minutes,
                         cfg.churn_min_events).events

UpgradePlaces ==
    {i \in 1..Len(bot_records) :
        /\ bot_records[i].action \in {"upgraded", "downgraded"}
        /\ Len(bot_records[i].treaty_type) = 2}

\* The positions of seq that hold a bot item made of the record at place i.
MadeOf(seq, i) ==
    {p \in 1..Len(seq) :
        seq[p].source = "bot" /\ seq[p].source_ref = BotRef(i - 1)}

\* Positions p and p + 1 of seq are all seq holds of the record at place i:
\* a cancelled on its old type, then a signed on its new type, both with
\* its timestamp.
HalvesAt(seq, i, p) ==
    /\ MadeOf(seq, i) = {p, p + 1}
    /\ seq[p].action = "cancelled"
    /\ seq[p].treaty_type = bot_records[i].treaty_type[1]
    /\ seq[p + 1].action = "signed"
    /\ seq[p + 1].treaty_type = bot_records[i].treaty_type[2]
    /\ seq[p].timestamp = bot_records[i].timestamp
    /\ seq[p + 1].timestamp = bot_records[i].timestamp

\* C20: every upgraded or downgraded bot record with type OLD->NEW becomes
\* exactly two records with its timestamp and its source_ref, a cancelled
\* on OLD and a signed on NEW; the replay processes the cancelled one
\* immediately before the signed one, with no item of the stream between
\* them, and gives them consecutive event_sequence numbers, whatever else
\* shares their timestamp.
C20_UpgradeExpansion ==
    \A i \in UpgradePlaces :
        /\ pc # "load" => \E p \in 1..Len(bot_events) :
                              HalvesAt(bot_events, i, p)
        /\ pc \notin {"load", "reconcile"} =>
               \E p \in 1..Len(all_stream) :
                   /\ HalvesAt(all_stream, i, p)
                   /\ cursor = p + 1 =>
                          /\ MadeOf(out, i) = {Len(out)}
                          /\ out[Len(out)].action = "cancelled"
                   /\ cursor > p + 1 =>
                          \E k \in 1..Len(out) :
                              /\ HalvesAt(out, i, k)
                              /\ out[k + 1].event_sequence
                                     = out[k].event_sequence + 1

\* A returned log with the halves of an upgrade next to each other, after
\* another bot record of their timestamp and the expiry inferred from it,
\* and the halves of an upgrade at the timestamp of an archive delta.
C20_Witness ==
    /\ Returned
    /\ \E i \in UpgradePlaces : \E k, a, x \in 1..Len(reconciled) :
           /\ HalvesAt(reconciled, i, k)
           /\ a < k
           /\ reconciled[a].source = "bot"
           /\ reconciled[a].timestamp = reconciled[k].timestamp
           /\ reconciled[x].source = "expiry_inferred"
           /\ x < k
    /\ \E i \in UpgradePlaces : \E k, a \in 1..Len(reconciled) :
           /\ HalvesAt(reconciled, i, k)
           /\ reconciled[a].source = "archive_delta"
           /\ reconciled[a].timestamp = reconciled[k].timestamp

\* Alliance aid is a node of the latest snapshot taken at or before when.
GroundedAt(lookup, when, aid) ==
    LET atOrBefore == {i \in 1..Len(lookup) : lookup[i][1] <= when}
    IN  /\ atOrBefore # {}
        /\ aid \in lookup[CHOOSE i \in atOrBefore :
                              \A k \in atOrBefore : k <= i][2]

\* C21: every emitted record has grounded_from and grounded_to equal to the
\* grounding of its two endpoints at its own timestamp, and grounded_keep
\* equal to TRUE under off, to their disjunction under semi and to their
\* conjunction under strict.
C21_GroundedKeepPolicy ==
    \A i \in 1..Len(out) :
        LET r == out[i]
            when == parse_dt(r.timestamp)
        IN  /\ r.grounded_from
                   = GroundedAt(grounding_lookup, when, r.from_alliance_id)
            /\ r.grounded_to
                   = GroundedAt(grounding_lookup, when, r.to_alliance_id)
            /\ cfg.top50_mode = "off" => r.grounded_keep = TRUE
            /\ cfg.top50_mode = "semi" =>
                   r.grounded_keep = (r.grounded_from \/ r.grounded_to)
            /\ cfg.top50_mode = "strict" =>
                   r.grounded_keep = (r.grounded_from /\ r.grounded_to)

\* Under semi the replay has emitted an expiry-inferred record with one
\* endpoint grounded at the expiry instant, which it keeps, after a bot
\* record of the same pair that it does not keep.
C21_Witness ==
    /\ pc = "filter"
    /\ cfg.top50_mode = "semi"
    /\ \E i, j \in 1..Len(out) :
           /\ out[i].source = "expiry_inferred"
           /\ out[i].grounded_from # out[i].grounded_to
           /\ out[i].grounded_keep
           /\ out[j].source = "bot"
           /\ out[j].pair_max_id = out[i].pair_max_id
           /\ ~out[j].grounded_keep

\* C22: the k-th record reconcile_events emits (k from 0) has
\* event_sequence k and the counter equals the number of records emitted,
\* so an item that is dropped or a marker that is consumed takes no
\* number; the returned log holds each of 0..n-1 exactly once.
C22_EventSequenceGapFree ==
    /\ pc = "replay" =>
           /\ next_event_sequence = Len(out)
           /\ \A k \in 1..Len(out) : out[k].event_sequence = k - 1
    /\ Returned =>
           /\ {out[k].event_sequence : k \in 1..Len(out)} = 0..(Len(out) - 1)
           /\ next_event_sequence = Len(out)

\* The replay has dropped an item, consumed a marker that closed a
\* relationship and flushed an expiry, and has emitted four records or
\* more.
C22_Witness ==
    /\ pc = "replay"
    /\ cursor > Len(all_stream)
    /\ \E f \in 1..Len(flags) :
           flags[f].flag = "empty_treaty_type_after_inference"
    /\ \E m \in 1..Len(all_stream) :
           all_stream[m].action = "alliance_zero_members"
    /\ \E i, j \in 1..Len(out) :
           /\ out[i].source = "deletion_inferred"
           /\ out[j].source = "expiry_inferred"
    /\ Len(out) >= 4

\* Some record of key k in the log has one of the given actions and no
\* later record of k is a terminal action or an inferred cancellation.
OpenedAndNotClosed(log, k, actions) ==
    \E i \in 1..Len(log) :
        /\ KeyOf(log[i]) = k
        /\ log[i].action \in actions
        /\ \A j \in (i + 1)..Len(log) :
               KeyOf(log[j]) = k => log[j].action \notin ClosingActions

\* C23 as stated: at every point of the replay a key has a TreatyState iff
\* a signed event of the key has been applied and no terminal action or
\* inferred cancellation of the key since.
C23_StateIffSignedNotClosed ==
    pc = "replay" =>
        \A k \in LogKeys(out) \cup OpenKeys(active) :
            (k \in OpenKeys(active)) <=> OpenedAndNotClosed(out, k, {"signed"})

\* C23: at every point of the replay a key has a TreatyState iff a signed
\* or an extended event of the key has been applied and no terminal action
\* or inferred cancellation of the key since.
C23_StateIffSignedOrExtendedNotClosed ==
    pc = "replay" =>
        \A k \in LogKeys(out) \cup OpenKeys(active) :
            (k \in OpenKeys(active))
                <=> OpenedAndNotClosed(out, k, {"signed", "extended"})

\* In the middle of the replay a key is open that only an extended event
\* opened, after an inferred cancellation had closed it; another key is
\* closed.
C23_Witness ==
    /\ pc = "replay"
    /\ cursor <= Len(all_stream)
    /\ \E k \in OpenKeys(active) :
           /\ ~OpenedAndNotClosed(out, k, {"signed"})
           /\ \E i \in 1..Len(out) :
                  KeyOf(out[i]) = k /\ out[i].action = "inferred_cancelled"
    /\ LogKeys(out) \ OpenKeys(active) # {}

\* C24: with deletion inference disabled a deletion marker at instant M
\* emits no record and closes no relationship, yet its replay step flushes:
\* with expiry inference enabled every relationship with expires_at <= M
\* gets its event_sequence at the marker's step, hence a smaller one than
\* any relationship that expires after M.
C24_DisabledMarkerStillFlushes ==
    (Returned /\ ~cfg.infer_deletion_cancels) =>
        /\ \A i \in 1..Len(out) : out[i].source # "deletion_inferred"
        /\ cfg.infer_expiry_cancels =>
               \A m \in 1..Len(alliance_zero_markers) :
                   \A a, b \in 1..Len(out) :
                       (/\ out[a].source = "expiry_inferred"
                        /\ out[b].source = "expiry_inferred"
                        /\ parse_dt(out[a].timestamp)
                               <= parse_dt(alliance_zero_markers[m].timestamp)
                        /\ parse_dt(alliance_zero_markers[m].timestamp)
                               < parse_dt(out[b].timestamp))
                       => out[a].event_sequence < out[b].event_sequence

\* A record load_bot_events cannot turn into events.
MalformedRecord(rec) ==
    \/ normalize_action(rec.action) = ""
    \/ rec.unusable # {}
    \/ /\ normalize_action(rec.action) \in {"upgraded", "downgraded"}
       /\ Len(rec.treaty_type) < 2

\* C25: malformed bot records never abort loading: once the inputs are
\* loaded the run has not aborted, every record that lacks its action, its
\* timestamp or an alliance id, or whose type cannot be parsed, has a
\* warning flag under its index and no event, and every other record has
\* its events.  (The claim as stated.)
C25_MalformedRecordsNeverAbort ==
    pc # "load" =>
        /\ pc # "aborted"
        /\ \A i \in 1..Len(bot_records) :
              LET made == {j \in 1..Len(bot_events) :
                              bot_events[j].source_ref = BotRef(i - 1)}
                  warned == {j \in 1..Len(bot_flags) :
                                /\ bot_flags[j].severity = "warning"
                                /\ bot_flags[j].record_index = i - 1}
              IN  IF MalformedRecord(bot_records[i])
                  THEN made = {} /\ warned # {}
                  ELSE made # {}

\* C26: an artifact size violation is surfaced before any write: when the
\* score payload or the frame-index payload exceeds its configured maximum
\* the run fails and no artifact file of that run has been written.  (The
\* claim as stated.)
C26_SizeViolationBeforeAnyWrite ==
    LET too_large ==
            \/ score_run.scores_bytes > score_run.max_score_bytes
            \/ /\ score_run.frame_index_bytes # <<>>
               /\ score_run.frame_index_bytes[1] >
                      score_run.max_frame_index_bytes
    IN  (pc \in {"score_done", "score_failed"} /\ too_large) =>
            pc = "score_failed" /\ written = {}

\* C27: structural input errors are fatal: with no snapshots in the archive
\* input, or with no census file available, the run aborts and writes no
\* reconciled log, summary, flags or frame index.  (The claim as stated.)
C27_StructuralErrorsFatal ==
    LET files == prepare_alliance_archives(census_files, StartDay(snapshots),
                                           EndDay(snapshots)).files
    IN  (snapshots = <<>> \/ files = {}) => (pc # "done" /\ written = {})

\* The edge a record of the archive deltas is about.
EdgeOf(ev) == <<ev.pair_min_id, ev.pair_max_id, ev.treaty_type>>

\* The positions of the archive deltas made for snapshot idx + 1 against
\* snapshot idx.
DeltasOf(idx) ==
    {j \in 1..Len(archive_delta_events) :
        archive_delta_events[j].source_ref
            \in {SnapshotRef(idx, TRUE), SnapshotRef(idx, FALSE)}}

\* The deltas of snapshot idx + 1 with an action, as positions.
DeltasWith(idx, action, e) ==
    {j \in DeltasOf(idx) :
        /\ archive_delta_events[j].action = action
        /\ EdgeOf(archive_delta_events[j]) = e}

\* C28: archive deltas are exact diffs: for consecutive snapshots prev and
\* curr there is one signed event per edge of curr that prev lacks, one
\* cancelled event per edge of prev that curr lacks and none for any other
\* edge, each stamped with curr's instant, of medium confidence and
\* inferred; applied to the edges of prev the events give the edges of curr.
C28_ArchiveDeltasExactDiffs ==
    pc \notin {"load", "aborted"} =>
        /\ \A j \in 1..Len(archive_delta_events) :
              /\ archive_delta_events[j].confidence = "medium"
              /\ archive_delta_events[j].inferred = TRUE
              /\ archive_delta_events[j].source = "archive_delta"
              /\ \E idx \in 1..(Len(snapshots) - 1) : j \in DeltasOf(idx)
        /\ \A idx \in 1..(Len(snapshots) - 1) :
              LET prev == snapshots[idx].edges
                  curr == snapshots[idx + 1].edges
                  signed == {e \in DeltaEdges :
                                DeltasWith(idx, "signed", e) # {}}
                  cancelled == {e \in DeltaEdges :
                                   DeltasWith(idx, "cancelled", e) # {}}
              IN  /\ \A j \in DeltasOf(idx) :
                        /\ archive_delta_events[j].timestamp =
                               dt_to_iso(snapshots[idx + 1].timestamp)
                        /\ archive_delta_events[j].action
                               \in {"signed", "cancelled"}
                        /\ EdgeOf(archive_delta_events[j]) \in DeltaEdges
                  /\ \A e \in DeltaEdges :
                        /\ Cardinality(DeltasWith(idx, "signed", e)) =
                               (IF e \in curr \ prev THEN 1 ELSE 0)
                        /\ Cardinality(DeltasWith(idx, "cancelled", e)) =
                               (IF e \in prev \ curr THEN 1 ELSE 0)
                  /\ (prev \cup signed) \ cancelled = curr

\* Three snapshots are loaded; the last one adds an edge to the second,
\* drops another one and keeps a third, and differs from the first.
C28_Witness ==
    /\ pc = "done"
    /\ Len(snapshots) = 3
    /\ snapshots[3].edges \ snapshots[2].edges # {}
    /\ snapshots[2].edges \ snapshots[3].edges # {}
    /\ snapshots[2].edges \cap snapshots[3].edges # {}
    /\ snapshots[1].edges # snapshots[2].edges
    /\ DeltasOf(2) # {}

\* The entries of the tracker whose expiry is not after the instant.
ExpiredBy(act, when) ==
    {i \in 1..Len(ActiveItems(act)) :
        /\ ActiveItems(act)[i].state.expires_at # <<>>
        /\ ActiveItems(act)[i].state.expires_at[1] <= when}

\* The replay step of an item with expiry inference on: every relationship
\* that expired by the item's instant is closed by a record emitted in this
\* step before the item's own records, and the item acts on the tracker
\* without those relationships.
ExpiryFlushedFirst ==
    LET raw == all_stream[cursor]
        now == parse_dt(raw.timestamp)
        items == ActiveItems(active)
        due == ExpiredBy(active, now)
        fresh == (Len(out) + 1)..Len(out')
        own == {k \in fresh : /\ out'[k].source # "expiry_inferred"
                               /\ out'[k].source_ref = raw.source_ref}
        closing(i) ==
            {j \in fresh :
                /\ out'[j].source = "expiry_inferred"
                /\ out'[j].action = "inferred_cancelled"
                /\ out'[j].pair_min_id = items[i].pair[1]
                /\ out'[j].pair_max_id = items[i].pair[2]
                /\ out'[j].treaty_type = items[i].state.treaty_type
                /\ out'[j].timestamp = dt_to_iso(items[i].state.expires_at[1])}
        typed == /\ raw.action # "alliance_zero_members"
                 /\ raw.treaty_type \notin {"", "UNKNOWN"}
        untyped == /\ raw.action # "alliance_zero_members"
                   /\ raw.treaty_type \in {"", "UNKNOWN"}
        same(i) == /\ items[i].pair = <<raw.pair_min_id, raw.pair_max_id>>
                   /\ items[i].state.treaty_type = raw.treaty_type
    IN  /\ \A i \in due :
              /\ Cardinality(closing(i)) = 1
              /\ \A j \in closing(i) : \A k \in own :
                    /\ j < k
                    /\ out'[j].event_sequence < out'[k].event_sequence
        /\ \A i \in due :
              (typed /\ same(i)) =>
                  /\ normalize_action(raw.action) = "extended" =>
                        /\ HasState(active', items[i].pair, raw.treaty_type)
                        /\ GetState(active', items[i].pair,
                                    raw.treaty_type).opened_at = now
                  /\ normalize_action(raw.action) \in TERMINAL_ACTIONS =>
                        ~HasState(active', items[i].pair, raw.treaty_type)
                  /\ own # {}
        /\ \A i \in due :
              (untyped /\ items[i].pair = <<raw.pair_min_id, raw.pair_max_id>>)
                  => \A k \in own :
                        out'[k].treaty_type # items[i].state.treaty_type

\* C29: expiry is flushed before the triggering item: when an item with
\* timestamp T is replayed with expiry inference enabled, every relationship
\* with expires_at <= T is closed and its inferred_cancelled record emitted
\* with a smaller event_sequence before the item's type inference and state
\* update; an extended or terminal item for the same key is applied to a
\* closed relationship, and a missing type is never inferred to be a type
\* that expired at or before T.
C29_ExpiryFlushedBeforeItem ==
    [][(pc = "replay" /\ cursor <= Len(all_stream)
           /\ cfg.infer_expiry_cancels) => ExpiryFlushedFirst]_vars

\* A relationship expired and was closed by a step whose item had no type
\* and was dropped; a later refresh of the same key at the same instant
\* opened it anew.
C29_Witness ==
    /\ pc = "replay"
    /\ cfg.infer_expiry_cancels
    /\ \E j \in 1..Len(out) : \E k \in (j + 1)..Len(out) :
          /\ out[j].source = "expiry_inferred"
          /\ out[j].treaty_type = "MDP"
          /\ out[k].action = "extended"
          /\ out[k].treaty_type = "MDP"
          /\ out[k].pair_min_id = out[j].pair_min_id
          /\ out[k].pair_max_id = out[j].pair_max_id
          /\ parse_dt(out[k].timestamp) > parse_dt(out[j].timestamp)
          /\ HasState(active, <<out[k].pair_min_id, out[k].pair_max_id>>, "MDP")
          /\ GetState(active, <<out[k].pair_min_id, out[k].pair_max_id>>,
                      "MDP").opened_at = parse_dt(out[k].timestamp)
    /\ \E f \in 1..Len(flags) :
          flags[f].flag = "empty_treaty_type_after_inference"

\* The expiry the turns of an item at an instant give: two hours a turn,
\* none when the turns are absent or negative.
ExpiryRule(when, turns) ==
    IF turns = <<>> THEN <<>>
    ELSE IF turns[1] >= 0 THEN <<when + turns[1] * 2>>
    ELSE <<>>

\* The replay step of a signed or extended item: the state of its key after
\* the step against the state before it.
OpenRefreshStep ==
    LET raw == all_stream[cursor]
        now == parse_dt(raw.timestamp)
        pair == <<raw.pair_min_id, raw.pair_max_id>>
        type == raw.treaty_type
        rule == ExpiryRule(now, raw.time_remaining_turns)
        open == /\ HasState(active, pair, type)
                /\ ~(/\ cfg.infer_expiry_cancels
                     /\ GetState(active, pair, type).expires_at # <<>>
                     /\ GetState(active, pair, type).expires_at[1] <= now)
        after == GetState(active', pair, type)
        opened == /\ after.opened_at = now
                  /\ after.expires_at = rule
                  /\ after.last_event_id = raw.source_ref
                  /\ after.treaty_type = type
    IN  /\ HasState(active', pair, type)
        /\ raw.action = "signed" => opened
        /\ (raw.action = "extended" /\ ~open) => opened
        /\ (raw.action = "extended" /\ open) =>
              /\ after.opened_at = GetState(active, pair, type).opened_at
              /\ after.expires_at = rule
              /\ after.last_event_id = raw.source_ref
              /\ after.treaty_type = type

\* C30: open and refresh: a signed item at T sets its key's state to
\* opened_at = T and expires_at = T + turns x 2h when turns >= 0 and to no
\* expiry when turns is negative or absent, replacing any state; an extended
\* item on an open key replaces only expires_at, by the same rule, and
\* last_source_ref, and leaves opened_at; an extended item on a key without
\* state creates the state as a signed item would.
C30_OpenRefreshSemantics ==
    [][(/\ pc = "replay"
        /\ cursor <= Len(all_stream)
        /\ all_stream[cursor].action \in {"signed", "extended"}
        /\ all_stream[cursor].treaty_type \notin {"", "UNKNOWN"})
           => OpenRefreshStep]_vars

\* With expiry inference on, a relationship opened at 00:00 was refreshed
\* at 06:00 to a later expiry and at 12:00 by an item without turns: it has
\* no expiry and is still open since 00:00.
C30_Witness ==
    /\ pc = "replay"
    /\ cfg.infer_expiry_cancels
    /\ Len(out) = 3
    /\ out[1].action = "signed" /\ out[1].time_remaining_turns = <<6>>
    /\ out[2].action = "extended" /\ out[2].time_remaining_turns = <<6>>
    /\ out[3].action = "extended" /\ out[3].time_remaining_turns = <<>>
    /\ HasState(active, <<1, 2>>, "MDP")
    /\ GetState(active, <<1, 2>>, "MDP").opened_at = 0
    /\ GetState(active, <<1, 2>>, "MDP").expires_at = <<>>
    /\ GetState(active, <<1, 2>>, "MDP").last_event_id = out[3].source_ref

\* The records of a log, as a set.
RecordsOf(log) == {log[i] : i \in 1..Len(log)}

\* One step of reconcile_events, a loop iteration or the final flush: the
\* expiry records it emits and the states it removes.
ExpiryOnlyWhenDue ==
    LET final == cursor > Len(all_stream)
        now == IF final THEN DatetimeMax
               ELSE parse_dt(all_stream[cursor].timestamp)
        items == ActiveItems(active)
        due(i) == /\ cfg.infer_expiry_cancels
                  /\ items[i].state.expires_at # <<>>
                  /\ items[i].state.expires_at[1] <= now
        by_item(i) ==
            /\ ~final
            /\ IF all_stream[cursor].action = "alliance_zero_members"
               THEN /\ cfg.infer_deletion_cancels
                    /\ all_stream[cursor].alliance_id
                           \in {items[i].pair[1], items[i].pair[2]}
               ELSE /\ normalize_action(all_stream[cursor].action)
                           \in TERMINAL_ACTIONS
                    /\ items[i].pair = <<all_stream[cursor].pair_min_id,
                                         all_stream[cursor].pair_max_id>>
        emitted == {r \in RecordsOf(out') \ RecordsOf(out) :
                       r.source = "expiry_inferred"}
    IN  /\ \A r \in emitted :
              \E i \in 1..Len(items) :
                  /\ due(i)
                  /\ items[i].pair = <<r.pair_min_id, r.pair_max_id>>
                  /\ items[i].state.treaty_type = r.treaty_type
                  /\ r.timestamp = dt_to_iso(items[i].state.expires_at[1])
        /\ \A i \in 1..Len(items) :
              (~due(i) /\ ~by_item(i)) =>
                  HasState(active', items[i].pair, items[i].state.treaty_type)

\* C31: expiry inference closes a relationship only when the option is
\* enabled and the relationship's expires_at is known and not after the
\* current processing timestamp: with the option disabled no expiry_inferred
\* record is emitted and the flush removes no state, and with it enabled a
\* relationship without a known expiry is never closed by the flush, the
\* final flush included.
C31_ExpiryOnlyWhenEnabledAndDue ==
    [][pc = "replay" => ExpiryOnlyWhenDue]_vars

\* With the option enabled reconcile_events has returned: the final flush
\* emitted an expiry record and left a relationship without expiry open.
C31_Witness ==
    /\ pc = "filter"
    /\ cfg.infer_expiry_cancels
    /\ \E i \in 1..Len(out) : out[i].source = "expiry_inferred"
    /\ \E i \in 1..Len(ActiveItems(active)) :
          ActiveItems(active)[i].state.expires_at = <<>>

\* The records the noise filter took out of the log reconcile_events made.
NoiseRemoved == {r \in RecordsOf(out) : \A i \in 1..Len(reconciled) :
                    reconciled[i].event_id # r.event_id}

\* C32: the noise filter removes records only as matched opposite-action
\* pairs: for every key it removes as many signed records as cancelled
\* ones, and each removed record is matched with exactly one other removed
\* record.  (The claim as stated.)
C32_NoiseRemovesMatchedPairs ==
    (pc \in {"index", "done"} /\ cfg.filter_noise /\ ~cfg.keep_noise
         /\ ~cfg.collapse_churn) =>
        /\ \A r \in NoiseRemoved :
              Cardinality({s \in NoiseRemoved :
                              /\ EventKey(s) = EventKey(r)
                              /\ s.action = "signed"})
                  = Cardinality({s \in NoiseRemoved :
                                    /\ EventKey(s) = EventKey(r)
                                    /\ s.action = "cancelled"})
        /\ \A r \in NoiseRemoved :
              Cardinality({n \in 1..Len(extra_flags) :
                              /\ extra_flags[n].flag = "noise_pair_filtered"
                              /\ r.event_id \in {extra_flags[n].prev_event_id,
                                                 extra_flags[n].curr_event_id}})
                  = 1

\* Whether a relationship is open after the records of log at the places
\* n.. of the position list are replayed on a relationship that is open or
\* not: signed and extended open it, every other action closes it.
RECURSIVE OpenAfter(_, _, _, _)
OpenAfter(log, positions, n, open) ==
    IF n > Len(positions) THEN open
    ELSE OpenAfter(log, positions, n + 1,
                   log[positions[n]].action \in {"signed", "extended"})

\* C33: churn collapse preserves the net effect of a burst: for every
\* collapsed cluster, replaying the kept records of the key from the state
\* the key had before the cluster leaves the relationship open if and only
\* if replaying the whole cluster from that state does.  (The claim as
\* stated.)
C33_ChurnPreservesNetEffect ==
    [][(pc = "churn" /\ cfg.collapse_churn) =>
          \A n \in 1..Len(ClustersNow) :
              LET cl == ClustersNow[n]
                  kept == Elements(cl) \cap Surviving(reconciled, reconciled')
                  earlier == {i \in 1..(cl[1] - 1) :
                                 EventKey(reconciled[i])
                                     = EventKey(reconciled[cl[1]])}
                  before == OpenAfter(reconciled, SortedInts(earlier), 1,
                                      FALSE)
              IN  (QualifyingCluster(reconciled, cl, MinimumNow)
                       /\ kept # Elements(cl)) =>
                      OpenAfter(reconciled, SortedInts(kept), 1, before)
                          = OpenAfter(reconciled, cl, 1, before)]_vars

\* The minutes between the records at two positions of the log.
MinutesBetween(log, i, j) ==
    (parse_dt(log[j].timestamp) - parse_dt(log[i].timestamp)) * MinutesPerHour

\* The window the collapser applies, in minutes.
WindowNow ==
    IF cfg.churn_window_minutes > 1 THEN cfg.churn_window_minutes ELSE 1

\* The eligible positions of the key of position first, ascending.
EligibleOfKey(eligible, first) ==
    SortedInts({i \in eligible :
                   EventKey(reconciled[i]) = EventKey(reconciled[first])})

\* The clusters of the key of position first, in order.
ClustersOfKey(clusters, first) ==
    SelectSeq(clusters,
              LAMBDA cl : EventKey(reconciled[cl[1]])
                              = EventKey(reconciled[first]))

RECURSIVE Concatenated(_, _)
Concatenated(clusters, n) ==
    IF n > Len(clusters) THEN <<>>
    ELSE clusters[n] \o Concatenated(clusters, n + 1)

\* The clusters of one key are runs of consecutive eligible records that
\* cover the key's eligible records once each, every record within the
\* window of its cluster's first one, and every cluster ends only where the
\* next record is outside that window.
PartitionedGreedily(own, records, window) ==
    /\ Concatenated(own, 1) = records
    /\ \A m \in 1..Len(own) :
          /\ own[m] # <<>>
          /\ \A k \in 1..Len(own[m]) :
                MinutesBetween(reconciled, own[m][1], own[m][k]) <= window
          /\ m < Len(own) =>
                MinutesBetween(reconciled, own[m][1], own[m + 1][1]) > window

CensusDays == DOMAIN census_rows

ListedOn(aid) ==
    {d \in CensusDays :
        \E k \in 1..Len(census_rows[d]) : census_rows[d][k] = aid}

\* The alliance is listed on the census day just before day d and on none
\* of the n census days that start at d.
GoneFrom(aid, d, n) ==
    LET following == {e \in CensusDays : e >= d}
        window == {e \in following :
                      Cardinality({x \in following : x < e}) < n}
    IN  /\ d \in CensusDays
        /\ \E prev \in ListedOn(aid) :
              /\ prev < d
              /\ \A x \in CensusDays : ~(prev < x /\ x < d)
        /\ Cardinality(window) = n
        /\ window \cap ListedOn(aid) = {}

\* The markers, as positions, for an alliance on a day.
MarkersAt(aid, d) ==
    {k \in 1..Len(alliance_zero_markers) :
        /\ alliance_zero_markers[k].alliance_id = aid
        /\ alliance_zero_markers[k].timestamp = dt_to_iso(d * HoursPerDay)}

\* C35: with N = max(1, confirmation days), load_alliance_zero_markers
\* emits a marker (d, X) if and only if d is the earliest census day such
\* that X is listed on the census day just before d and on none of the N
\* consecutive census days starting at d; it emits at most one marker for
\* an alliance and none for an alliance that never meets the condition.
C35_ZeroMarkersEarliestGap ==
    pc = "census_done" =>
        LET n == IF cfg.deletion_confirmation_days > 1
                 THEN cfg.deletion_confirmation_days ELSE 1
            earliest(aid, d) ==
                /\ GoneFrom(aid, d, n)
                /\ \A e \in CensusDays : e < d => ~GoneFrom(aid, e, n)
        IN  /\ \A aid \in 1..2 : \A d \in 0..MaxCensusDay :
                  Cardinality(MarkersAt(aid, d))
                      = (IF earliest(aid, d) THEN 1 ELSE 0)
            /\ \A k \in 1..Len(alliance_zero_markers) :
                  /\ alliance_zero_markers[k].action = "alliance_zero_members"
                  /\ \E aid \in 1..2 : \E d \in CensusDays :
                        k \in MarkersAt(aid, d)
            /\ \A aid \in 1..2 :
                  Cardinality({k \in 1..Len(alliance_zero_markers) :
                      alliance_zero_markers[k].alliance_id = aid}) <= 1

\* With two days of confirmation and a census that skips day 1, alliance
\* 1 is listed on day 0 and on neither day 2 nor day 3 and has its marker
\* on day 2; alliance 2 is missing on day 3 only and has none.
C35_Witness ==
    /\ pc = "census_done"
    /\ cfg.deletion_confirmation_days = 2
    /\ CensusDays = {0, 2, 3}
    /\ ListedOn(1) = {0}
    /\ ListedOn(2) = {0, 2}
    /\ MarkersAt(1, 2) # {}
    /\ Len(alliance_zero_markers) = 1

\* C36: inference never closes what is not open: in the log reconcile_events
\* returns, every inferred_cancelled record, expiry- or deletion-inferred,
\* is preceded in the order of the log by a signed or extended record of
\* its key with no terminal or inferred_cancelled record of that key
\* between them; no relationship is inferred-closed twice and none without
\* having been opened.
C36_InferenceClosesOnlyOpen ==
    Returned =>
        \A j \in 1..Len(out) :
            out[j].action = "inferred_cancelled" =>
                \E i \in 1..(j - 1) :
                    /\ EventKey(out[i]) = EventKey(out[j])
                    /\ out[i].action \in {"signed", "extended"}
                    /\ \A k \in (i + 1)..(j - 1) :
                          EventKey(out[k]) = EventKey(out[j]) =>
                              out[k].action
                                  \notin TERMINAL_ACTIONS
                                             \cup {"inferred_cancelled"}

\* The returned log closes one relationship by expiry, reopens it and
\* closes it again by the marker of a deleted alliance.
C36_Witness ==
    /\ Returned
    /\ \E i, j \in 1..Len(out) :
          /\ i < j
          /\ EventKey(out[i]) = EventKey(out[j])
          /\ out[i].source = "expiry_inferred"
          /\ out[j].source = "deletion_inferred"

\* The edges of the first n records that a later record among them neither
\* replaces (signed) nor ends (terminal): for each key, the edge of its
\* most recent signed record when no terminal record of the key follows.
LatestSignedEdges(fi, log, n) ==
    {e \in 0..(Len(fi.edge_dict) - 1) :
        /\ fi.edge_dict[e + 1][1] < n
        /\ \A k \in (fi.edge_dict[e + 1][1] + 2)..n :
              EventKey(log[k]) = EdgeKey(fi, e) =>
                  normalize_action(log[k].action)
                      \notin {"signed"} \cup TERMINAL_ACTIONS}

\* C37: at the end of every day of a frame index, the edge set obtained by
\* summing the deltas holds at most one edge id per key, and that id is the
\* edge of the key's most recent signed event with no later terminal event:
\* a re-signed key replaces its previous edge.
C37_OneEdgePerKey ==
    pc = "done" =>
        \A d \in 1..Len(frame_index.day_keys) :
            /\ EdgesAfterDeltas(frame_index, d)
                   = LatestSignedEdges(frame_index, reconciled,
                         frame_index.event_end_offset_by_day[d])
            /\ \A e, f \in EdgesAfterDeltas(frame_index, d) :
                  EdgeKey(frame_index, e) = EdgeKey(frame_index, f) => e = f

\* A key signed on one day is signed again on a later day: that day's delta
\* removes the first edge and adds the second.
C37_Witness ==
    /\ pc = "done"
    /\ Len(frame_index.day_keys) >= 2
    /\ Len(frame_index.edge_dict) >= 2
    /\ EdgeKey(frame_index, 0) = EdgeKey(frame_index, 1)
    /\ frame_index.active_edge_delta_by_day[1].add_edge_ids = <<0>>
    /\ frame_index.active_edge_delta_by_day[2].add_edge_ids = <<1>>
    /\ frame_index.active_edge_delta_by_day[2].remove_edge_ids = <<0>>

\* C38: the two frame-index builders agree: for every event sequence,
\* score.build_frame_index_from_events and
\* generate_timelapse_data.build_frame_index return the same day_keys,
\* event_end_offset_by_day, edge_dict and active_edge_delta_by_day, the
\* aliases terminated and termination and inferred_cancelled included.
C38_BuildersAgree ==
    pc = "rebuilt" =>
        /\ frame_index_payload[1].day_keys = frame_index.day_keys
        /\ frame_index_payload[1].event_end_offset_by_day
               = frame_index.event_end_offset_by_day
        /\ frame_index_payload[1].edge_dict = frame_index.edge_dict
        /\ frame_index_payload[1].active_edge_delta_by_day
               = frame_index.active_edge_delta_by_day

\* Both builders have run on a sequence that signs a key on one day and
\* ends it on later days by an alias and by an inferred cancellation, and
\* the rebuilt index removes the edge on the second day.
C38_Witness ==
    /\ pc = "rebuilt"
    /\ Len(reconciled) = 3
    /\ reconciled[1].action = "signed"
    /\ reconciled[2].action = "termination"
    /\ reconciled[3].action = "inferred_cancelled"
    /\ Len(frame_index_payload[1].day_keys) = 3
    /\ frame_index_payload[1].active_edge_delta_by_day[2].remove_edge_ids
           = <<0>>

\* The grounding fields of a record.
GroundingFields == {"grounded_from", "grounded_to", "grounded_keep"}

\* A replay state with the grounding fields of its records left out.
Ungrounded(S) ==
    [active |-> S.active,
     seq |-> S.seq,
     out |-> [i \in 1..Len(S.out) |->
                 [f \in DOMAIN S.out[i] \ GroundingFields |-> S.out[i][f]]]]

\* reconcile_events on the first n items of a stream under a grounding
\* lookup and the options c.
RECURSIVE ReplayPrefix(_, _, _, _)
ReplayPrefix(stream, n, lookup, c) ==
    IF n = 0 THEN [active |-> <<>>, out |-> <<>>, flags |-> <<>>, seq |-> 0]
    ELSE ReplayItem(ReplayPrefix(stream, n - 1, lookup, c), stream[n],
                    lookup, c)

\* reconcile_events on a whole stream: the loop, the final flush, the sort.
ReconcileRun(stream, lookup, c) ==
    LET R == flush_expired(ReplayPrefix(stream, Len(stream), lookup, c),
                           DatetimeMax, lookup, c)
    IN  [R EXCEPT !.out = SortOut(R.out)]

\* The grounding policies and the lookups the run is compared under.
GroundingPolicies == {"off", "semi", "strict"}

GroundingLookups ==
    {build_grounding_lookup(s) : s \in KeepSnapshotLists}

\* C39: grounding does not interfere with reconciliation: on the same
\* stream, reconcile_events under the policies off, semi and strict and
\* under any grounding lookup goes through the same tracker states and
\* emits the same records in the same order with the same event_sequence,
\* the fields grounded_from, grounded_to and grounded_keep apart; a record
\* with grounded_keep false changes the tracker all the same and is in the
\* returned log, which main filters afterwards.
C39_GroundingDoesNotInterfere ==
    \A mode \in GroundingPolicies, lookup \in GroundingLookups :
        LET c == [cfg EXCEPT !.top50_mode = mode]
        IN  /\ pc = "replay" =>
                  Ungrounded(ReplayPrefix(all_stream, cursor - 1, lookup, c))
                      = Ungrounded(ReplayState)
            /\ pc = "filter" =>
                  Ungrounded(ReconcileRun(all_stream, lookup, c))
                      = Ungrounded(ReplayState)

\* A strict run returns a signed record it does not keep and, after it, the
\* expiry of the relationship that record opened.
C39_Witness ==
    /\ pc = "filter"
    /\ cfg.top50_mode = "strict"
    /\ grounding_lookup # <<>>
    /\ \E i, j \in 1..Len(out) :
          /\ i < j
          /\ out[i].action = "signed"
          /\ ~out[i].grounded_keep
          /\ out[j].source = "expiry_inferred"
          /\ EventKey(out[j]) = EventKey(out[i])

\* C40: within one run of reconcile_events no two emitted records have the
\* same event_id input tuple (timestamp, event_sequence, action,
\* treaty_type, pair_min_id, pair_max_id, source, source_ref); the
\* cancelled and the signed half of one upgrade or downgrade record, which
\* share timestamp, pair, source and source_ref, get different tuples.
C40_EventIdInputsDistinct ==
    \A i, j \in 1..Len(out) :
        i # j =>
            /\ out[i].event_id # out[j].event_id
            /\ out[i].event_sequence # out[j].event_sequence

\* The returned log holds the two halves of one upgrade record.
C40_Witness ==
    /\ Returned
    /\ \E i, j \in 1..Len(out) :
          /\ out[i].action = "cancelled"
          /\ out[j].action = "signed"
          /\ out[i].source = "bot"
          /\ out[i].source_ref = out[j].source_ref
          /\ out[i].timestamp = out[j].timestamp
          /\ out[i].pair_min_id = out[j].pair_min_id
          /\ out[i].pair_max_id = out[j].pair_max_id
          /\ out[i].treaty_type # out[j].treaty_type

====
